---- MODULE Spec2Model ----
(***************************************************************************)
(* A model of home_assistant_mcp: the service allowlist (security.py), the *)
(* REST client's request/retry path (ha_rest.py), the SSH log client's     *)
(* gating and command path (ssh_logs.py) and the call_tool dispatcher      *)
(* (server.py).                                                            *)
(*                                                                         *)
(* Text is modelled as a sequence of one-character strings, so that        *)
(* splitting, stripping, formatting and glob matching are computed.        *)
(* Messages are sequences of text fragments joined by \o.                  *)
(***************************************************************************)
EXTENDS Integers, Sequences, FiniteSets, TLC

VARIABLES
    env_value,   \* the HA_ALLOWED_SERVICES input the allowlist was built from
    config,      \* MCPConfig: mode, ssh settings, allowed_services
    probe,       \* the last direct ServiceAllowlist query and its answer
    inv,         \* the call_tool invocation in flight, or the last one finished
    rest,        \* HomeAssistantRestClient: session and the _request in flight
    ssh,         \* SSHLogClient: the operation in flight, or the last finished
    ws           \* HomeAssistantWebSocketClient: _message_id, the operation in flight

vars == <<env_value, config, probe, inv, rest, ssh, ws>>

None == <<"<None>">>    \* Python's None (also a key absent from a dict), in a text slot

(***************************************************************************)
(* Bounds of the model.                                                    *)
(***************************************************************************)
MaxEntries == 2         \* comma-separated entries in an allowlist input

(***************************************************************************)
(* Text helpers (Python str semantics).                                    *)
(***************************************************************************)
LowerChars == {"a", "b", "c"}
DigitChars == {"1"}
Whitespace == {" ", "\n"}

\* str.strip(): leading and trailing whitespace removed
RECURSIVE LStrip(_)
LStrip(s) == IF s # <<>> /\ Head(s) \in Whitespace THEN LStrip(Tail(s)) ELSE s

RECURSIVE RStrip(_)
RStrip(s) ==
    IF s # <<>> /\ s[Len(s)] \in Whitespace
    THEN RStrip(SubSeq(s, 1, Len(s) - 1))
    ELSE s

Strip(s) == RStrip(LStrip(s))

\* str.split(sep) for a one-character sep: always at least one piece
RECURSIVE SplitFrom(_, _, _)
SplitFrom(s, sep, cur) ==
    IF s = <<>> THEN <<cur>>
    ELSE IF Head(s) = sep THEN <<cur>> \o SplitFrom(Tail(s), sep, <<>>)
    ELSE SplitFrom(Tail(s), sep, Append(cur, Head(s)))

Split(s, sep) == SplitFrom(s, sep, <<>>)

\* sep.join(parts)
RECURSIVE Join(_, _)
Join(parts, sep) ==
    IF parts = <<>> THEN <<>>
    ELSE IF Len(parts) = 1 THEN parts[1]
    ELSE parts[1] \o sep \o Join(Tail(parts), sep)

\* str.count(ch)
RECURSIVE Count(_, _)
Count(s, ch) ==
    IF s = <<>> THEN 0
    ELSE (IF Head(s) = ch THEN 1 ELSE 0) + Count(Tail(s), ch)

InSeq(x, seq) == \E i \in 1..Len(seq) : seq[i] = x

Min(a, b) == IF a <= b THEN a ELSE b

\* Python truthiness of a text-or-None value
Truthy(x) == x # None /\ x # <<>>

(***************************************************************************)
(* ServiceAllowlist (security.py).                                         *)
(***************************************************************************)
Star == <<"*">>
Dot == <<".">>

\* re.match(r"^[a-z_][a-z0-9_]*$", s): '$' also matches before one
\* trailing newline
IdentCore(s) ==
    /\ s # <<>>
    /\ s[1] \in LowerChars \cup {"_"}
    /\ \A i \in 2..Len(s) : s[i] \in LowerChars \cup DigitChars \cup {"_"}

IdentMatch(s) ==
    \/ IdentCore(s)
    \/ /\ s # <<>>
       /\ s[Len(s)] = "\n"
       /\ IdentCore(SubSeq(s, 1, Len(s) - 1))

_validate_pattern(pattern) ==
    IF pattern = Star THEN TRUE
    ELSE IF Count(pattern, ".") # 1 THEN FALSE
    ELSE LET parts == Split(pattern, ".")
             domain == parts[1]
             service == parts[2]
         IN  IF ~IdentMatch(domain) THEN FALSE
             ELSE IF service # Star /\ ~IdentMatch(service) THEN FALSE
             ELSE TRUE

NonEmpty(p) == p # <<>>

\* [p.strip() for p in env_value.split(",") if p.strip()]
StrippedEntries(env) ==
    LET pieces == Split(env, ",")
        stripped == [i \in 1..Len(pieces) |-> Strip(pieces[i])]
    IN  SelectSeq(stripped, NonEmpty)

\* from_env testing "'*' in env_value" (a substring test) instead of
\* "'*' in patterns"
from_env_star_substring(env) ==
    IF env = None \/ env = <<>> \/ Strip(env) = <<>>
    THEN [patterns |-> <<>>, allow_all |-> FALSE]
    ELSE LET patterns == StrippedEntries(env)
         IN  IF InSeq("*", env)
             THEN [patterns |-> patterns, allow_all |-> TRUE]
             ELSE [patterns |-> SelectSeq(patterns, _validate_pattern),
                   allow_all |-> FALSE]

ServiceAllowlist_from_env(env) ==
    IF env = None \/ env = <<>> \/ Strip(env) = <<>>   \* not env_value or not env_value.strip()
    THEN [patterns |-> <<>>, allow_all |-> FALSE]
    ELSE LET patterns == StrippedEntries(env)
         IN  IF InSeq(Star, patterns)
             THEN [patterns |-> patterns, allow_all |-> TRUE]
             ELSE [patterns |-> SelectSeq(patterns, _validate_pattern),
                   allow_all |-> FALSE]

\* fnmatch.fnmatch(name, pat) on a POSIX host (os.path.normcase is the
\* identity): '*' is any run of characters, '?' any one character, every
\* other character stands for itself; the whole name must match.
RECURSIVE fnmatch(_, _)
fnmatch(name, pat) ==
    IF pat = <<>> THEN name = <<>>
    ELSE IF Head(pat) = "*"
         THEN \/ fnmatch(name, Tail(pat))
              \/ name # <<>> /\ fnmatch(Tail(name), pat)
    ELSE IF Head(pat) = "?"
         THEN name # <<>> /\ fnmatch(Tail(name), Tail(pat))
    ELSE name # <<>> /\ Head(name) = Head(pat)
         /\ fnmatch(Tail(name), Tail(pat))

\* f"{domain}.{service}"
FullService(domain, service) == domain \o Dot \o service

\* is_allowed looking at the first pattern only
is_allowed_first_pattern(al, domain, service) ==
    IF al.allow_all THEN TRUE
    ELSE IF al.patterns = <<>> THEN FALSE
    ELSE LET full_service == FullService(domain, service)
         IN  \/ al.patterns[1] = full_service
             \/ fnmatch(full_service, al.patterns[1])

is_allowed(al, domain, service) ==
    IF al.allow_all THEN TRUE
    ELSE IF al.patterns = <<>> THEN FALSE
    ELSE LET full_service == FullService(domain, service)
         IN  \E i \in 1..Len(al.patterns) :
                 \/ al.patterns[i] = full_service
                 \/ fnmatch(full_service, al.patterns[i])

get_denial_message(al, domain, service) ==
    LET full_service == FullService(domain, service)
    IN  IF al.patterns = <<>>
        THEN <<"Service call '">> \o full_service
             \o <<"' denied: no services are allowlisted. ">>
             \o <<"Set HA_ALLOWED_SERVICES to enable service calls.">>
        ELSE <<"Service call '">> \o full_service
             \o <<"' denied: not in allowlist. ">>
             \o <<"Allowed patterns: ">> \o Join(al.patterns, <<", ">>)

(***************************************************************************)
(* Exceptions: the classes the clients raise or let through, and Python's  *)
(* isinstance over their base classes.                                     *)
(***************************************************************************)
Parent(cls) ==
    CASE cls = "HomeAssistantAuthError"     -> "HomeAssistantAPIError"
      [] cls = "HomeAssistantNotFoundError" -> "HomeAssistantAPIError"
      [] cls = "HomeAssistantWSAuthError"   -> "HomeAssistantWSError"
      [] cls = "SSHDisabledError"           -> "SSHError"
      [] cls = "ReadTimeout"                -> "TimeoutException"
      [] cls = "TimeoutException"           -> "TransportError"
      [] cls = "ConnectError"               -> "TransportError"
      [] cls = "JSONDecodeError"            -> "ValueError"
      [] cls = "ConnectionClosed"           -> "WebSocketException"
      [] cls = "TimeoutError"               -> "OSError"
      [] cls = "BaseException"              -> "object"
      [] cls = "Exception"                  -> "BaseException"
      [] OTHER                              -> "Exception"

RECURSIVE IsInstance(_, _)
IsInstance(type, cls) ==
    IF type = cls THEN TRUE
    ELSE IF type = "object" THEN FALSE
    ELSE IsInstance(Parent(type), cls)

NoExc == [type |-> "none", msg |-> <<>>, status_code |-> 0]
Exc(type, msg) == [type |-> type, msg |-> msg, status_code |-> 0]
ExcStatus(type, msg, code) == [type |-> type, msg |-> msg, status_code |-> code]

\* how a call ends: a returned value or a raised exception
NoValue == [type |-> "none", text |-> <<>>]
Ret(v) == [kind |-> "return", value |-> v, exc |-> NoExc]
Raise(e) == [kind |-> "raise", value |-> NoValue, exc |-> e]

TimeoutText == <<"<request_timeout>">>   \* str(config.request_timeout)

(***************************************************************************)
(* HomeAssistantRestClient (ha_rest.py): _handle_response, _request and    *)
(* the API methods.                                                        *)
(***************************************************************************)
MaxAttempts == 3        \* stop_after_attempt(3)
BodyLimit == 200        \* response.text[:200]

\* what one client.request(...) can end with
Response(status, content, body) ==
    [kind |-> "response", status |-> status, content |-> content,
     body |-> body, exc |-> "none"]
Failure(exc) ==
    [kind |-> "exception", status |-> 0, content |-> "none",
     body |-> <<>>, exc |-> exc]

\* a response body of n characters: 'h', then 'x's, then 't' last
BodyText(n) ==
    [i \in 1..n |-> IF i = 1 THEN "h" ELSE IF i = n THEN "t" ELSE "x"]

HubOutcomes ==
    { Response(200, c, BodyText(2)) :
        c \in {"json_dict", "json_list", "json_invalid", "text"} }
    \cup { Response(s, "text", BodyText(2)) : s \in {302, 401, 403, 404} }
    \cup { Response(s, "text", BodyText(n)) :
             s \in {400, 500}, n \in {0, BodyLimit, BodyLimit + 1} }
    \cup { Failure(e) : e \in {"ReadTimeout", "ConnectError"} }

_handle_response(response, path) ==
    IF response.status = 401
    THEN Raise(ExcStatus("HomeAssistantAuthError",
                         <<"Authentication failed - check HA_TOKEN">>, 401))
    ELSE IF response.status = 403
    THEN Raise(ExcStatus("HomeAssistantAuthError",
             <<"Access forbidden - token may lack required permissions">>,
             403))
    ELSE IF response.status = 404
    THEN Raise(ExcStatus("HomeAssistantNotFoundError",
                         <<"Resource not found: ">> \o path, 404))
    ELSE IF response.status >= 400
    THEN Raise(ExcStatus("HomeAssistantAPIError",
             <<"API error ", ToString(response.status), ": ">>
             \o SubSeq(response.body, 1, Min(BodyLimit, Len(response.body))),
             response.status))
    ELSE IF response.content \in {"json_dict", "json_list", "json_invalid"}
    THEN \* response.json()
         IF response.content = "json_invalid"
         THEN Raise(Exc("JSONDecodeError", <<"Expecting value">>))
         ELSE Ret([type |-> IF response.content = "json_dict"
                            THEN "dict" ELSE "list",
                   text |-> response.body])
    ELSE Ret([type |-> "str", text |-> response.body])

\* the body of _request: one attempt, with its try/except
RequestOnce(outcome, path) ==
    IF outcome.kind = "response"
    THEN _handle_response(outcome, path)
    ELSE IF IsInstance(outcome.exc, "TimeoutException")
    THEN Raise(Exc("HomeAssistantAPIError",
                   <<"Request timeout after ">> \o TimeoutText \o <<"s">>))
    ELSE Raise(Exc(outcome.exc, <<"<transport failure>">>))

\* a retry policy that retries whatever _request raised
ShouldRetry_any_raise(result, attempt_number) ==
    /\ result.kind = "raise"
    /\ attempt_number < MaxAttempts

\* a retry policy that allows one attempt more
ShouldRetry_four_attempts(result, attempt_number) ==
    /\ result.kind = "raise"
    /\ \/ IsInstance(result.exc.type, "TransportError")
       \/ IsInstance(result.exc.type, "TimeoutException")
    /\ attempt_number < MaxAttempts + 1

\* tenacity: retry_if_exception_type((TransportError, TimeoutException)),
\* stop_after_attempt(3), reraise=True
ShouldRetry(result, attempt_number) ==
    /\ result.kind = "raise"
    /\ \/ IsInstance(result.exc.type, "TransportError")
       \/ IsInstance(result.exc.type, "TimeoutException")
    /\ attempt_number < MaxAttempts

\* the API methods, after their _request returned or raised
ApiFinish(op, r) ==
    IF op = "get_error_log"
    THEN IF r.kind = "raise"
         THEN IF IsInstance(r.exc.type, "HomeAssistantNotFoundError")
              THEN Ret([type |-> "dict",
                        text |-> <<"Error log endpoint not available.">>])
              ELSE r
         ELSE Ret([type |-> "dict", text |-> <<"log">>])
    ELSE IF r.kind = "raise" THEN r
    ELSE IF op = "ping"
    THEN IF r.value.type = "dict"
         THEN Ret([type |-> "dict", text |-> <<"status", "ok">>])
         ELSE Raise(Exc("AttributeError",
                <<"'", r.value.type, "' object has no attribute 'get'">>))
    ELSE IF op \in {"list_entities", "search_entities"}
    THEN IF r.value.type # "list"
         THEN Raise(Exc("HomeAssistantAPIError",
                <<"Unexpected response format from /api/states">>))
         ELSE Ret([type |-> "dict", text |-> <<op>>])
    ELSE IF op = "get_history"
    THEN IF r.value.type # "list"
         THEN Raise(Exc("HomeAssistantAPIError",
                <<"Unexpected response format from history API">>))
         ELSE Ret([type |-> "dict", text |-> <<op>>])
    ELSE IF op = "get_logbook"
    THEN IF r.value.type # "list"
         THEN Raise(Exc("HomeAssistantAPIError",
                <<"Unexpected response format from logbook API">>))
         ELSE Ret([type |-> "dict", text |-> <<op>>])
    ELSE IF op = "call_service"
    THEN Ret([type |-> "dict", text |-> <<"success">>])
    ELSE r      \* get_entity returns what _request returned

\* the request each API method hands to _request
ServicePath(domain, service) ==
    <<"/api/services/">> \o domain \o <<"/">> \o service

RestOp(op, params) ==
    CASE op = "ping" -> [method |-> "GET", path |-> <<"/api/">>]
      [] op \in {"list_entities", "search_entities"} ->
            [method |-> "GET", path |-> <<"/api/states">>]
      [] op = "get_entity" ->
            [method |-> "GET", path |-> <<"/api/states/">> \o params.entity_id]
      [] op = "get_history" ->
            [method |-> "GET",
             path |-> <<"/api/history/period/", "<start>", "?end_time=", "<end>">>
                      \o (IF params.entity_id # None /\ params.entity_id # <<>>
                          THEN <<"&filter_entity_id=">> \o params.entity_id
                          ELSE <<"&significant_changes_only=1">>)]
      [] op = "get_logbook" ->
            [method |-> "GET",
             path |-> <<"/api/logbook/", "<start>", "?end_time=", "<end>">>
                      \o (IF params.entity_id # None /\ params.entity_id # <<>>
                          THEN <<"&entity=">> \o params.entity_id
                          ELSE <<>>)]
      [] op = "get_error_log" ->
            [method |-> "GET", path |-> <<"/api/error_log">>]
      [] op = "call_service" ->
            [method |-> "POST",
             path |-> ServicePath(params.domain, params.service)]

(***************************************************************************)
(* SSHLogClient (ssh_logs.py).                                             *)
(***************************************************************************)
StderrLimit == 200      \* stderr[:200]

HA_CORE_LOG_PATHS ==
    << "/config/home-assistant.log",
       "/var/log/home-assistant.log",
       "/home/homeassistant/.homeassistant/home-assistant.log" >>

\* the strategies of _get_core_logs with journalctl tried first
CoreStrategies_journal_first ==
    << [command |-> "journalctl -u home-assistant --no-pager -n",
        source |-> <<"journalctl">>],
       [command |-> "ha core logs --lines", source |-> <<"ha core logs">>] >>
    \o [i \in 1..Len(HA_CORE_LOG_PATHS) |->
            [command |-> "tail -n " \o HA_CORE_LOG_PATHS[i],
             source |-> <<"tail ", HA_CORE_LOG_PATHS[i]>>]]

\* the strategies of _get_core_logs, in the order it tries them
CoreStrategies ==
    << [command |-> "ha core logs --lines", source |-> <<"ha core logs">>] >>
    \o [i \in 1..Len(HA_CORE_LOG_PATHS) |->
            [command |-> "tail -n " \o HA_CORE_LOG_PATHS[i],
             source |-> <<"tail ", HA_CORE_LOG_PATHS[i]>>]]
    \o << [command |-> "journalctl -u home-assistant --no-pager -n",
           source |-> <<"journalctl">>] >>

SupervisorCommand == "ha supervisor logs --lines"
WhoamiCommand == "whoami"

\* what asyncssh.connect(...) under wait_for can end with
SshConnectOutcomes == {"ok", "TimeoutError", "asyncssh.Error", "OSError"}

\* what conn.run(command, check=False) under wait_for can end with
Completed(exit_status, stdout, stderr) ==
    [kind |-> "completed", exit_status |-> exit_status, stdout |-> stdout,
     stderr |-> stderr, exc |-> "none"]
RunFailure(exc) ==
    [kind |-> "exception", exit_status |-> 0, stdout |-> <<>>,
     stderr |-> <<>>, exc |-> exc]

SshRunOutcomes ==
    { Completed(0, <<"log line">>, <<>>),
      Completed(0, <<>>, <<>>),
      Completed(1, <<>>, <<"ha: command not found">>),
      Completed(1, <<>>, <<"boom">>),
      Completed(1, <<"partial">>, <<>>) }
    \cup { RunFailure(e) : e \in {"TimeoutError", "asyncssh.Error", "OSError"} }

NoCommandResult == Completed(0, <<>>, <<>>)

\* _connect up to its connection attempt: the steps taken in order, and the
\* exception that stopped them (NoExc when the connection is attempted)
ConnectPrelude(cfg, installed) ==
    IF ~cfg.ssh_enable
    THEN [steps |-> <<"check_enable">>,
          exc |-> Exc("SSHDisabledError",
                  <<"SSH is not enabled. Set HA_SSH_ENABLE=true and configure ",
                    "HA_SSH_HOST, HA_SSH_USER, and auth credentials.">>)]
    ELSE IF ~Truthy(cfg.ssh_host)
    THEN [steps |-> <<"check_enable", "check_host">>,
          exc |-> Exc("SSHError", <<"SSH host not configured (HA_SSH_HOST)">>)]
    ELSE IF ~Truthy(cfg.ssh_user)
    THEN [steps |-> <<"check_enable", "check_host", "check_user">>,
          exc |-> Exc("SSHError", <<"SSH user not configured (HA_SSH_USER)">>)]
    ELSE IF ~installed
    THEN [steps |-> <<"check_enable", "check_host", "check_user", "import_asyncssh">>,
          exc |-> Exc("SSHError",
                  <<"asyncssh not installed. Install with: pip install asyncssh">>)]
    ELSE [steps |-> <<"check_enable", "check_host", "check_user",
                      "import_asyncssh", "connect">>,
          exc |-> NoExc]

\* _run_command up to the connection attempt of its _connect
RunPrelude(cfg, installed) ==
    IF ~installed
    THEN [steps |-> <<"import_asyncssh">>,
          exc |-> Exc("SSHError", <<"asyncssh not installed">>)]
    ELSE LET c == ConnectPrelude(cfg, installed)
         IN  [steps |-> <<"import_asyncssh">> \o c.steps, exc |-> c.exc]

\* the except clauses of _connect around asyncssh.connect
ConnectResult(outcome) ==
    CASE outcome = "ok" -> Ret(NoValue)
      [] outcome = "TimeoutError" ->
            Raise(Exc("SSHError", <<"SSH connection timeout after ">>
                                  \o TimeoutText \o <<"s">>))
      [] outcome \in {"asyncssh.Error", "OSError"} ->
            Raise(Exc("SSHError", <<"SSH connection failed: ", outcome>>))

\* the try/except of _run_command around conn.run; the value returned is
\* (stdout or "", stderr or "", exit_status or 0)
RunResult(outcome, timeout) ==
    IF outcome.kind = "completed"
    THEN [kind |-> "return", completed |-> outcome, exc |-> NoExc]
    ELSE [kind |-> "raise", completed |-> NoCommandResult,
          exc |-> CASE outcome.exc = "TimeoutError" ->
                          Exc("SSHError", <<"Command timeout after ", timeout, "s">>)
                    [] outcome.exc = "asyncssh.Error" ->
                          Exc("SSHError", <<"Command execution failed: ", outcome.exc>>)
                    [] OTHER -> Exc(outcome.exc, <<"<os failure>">>)]

CommandRaise(e) == [kind |-> "raise", completed |-> NoCommandResult, exc |-> e]

\* no _run_command has ended yet
CommandNotRun == [kind |-> "none", completed |-> NoCommandResult, exc |-> NoExc]

\* str(e).lower() contains 'not found'
RECURSIVE MentionsNotFound(_)
MentionsNotFound(msg) ==
    IF msg = <<>> THEN FALSE
    ELSE Head(msg) \in {"ha: command not found"} \/ MentionsNotFound(Tail(msg))

\* _format_log_response, by its source label
LogPayload(source, log_content) ==
    [type |-> "dict", text |-> <<"source=">> \o source \o <<"log=">> \o log_content]

\* _get_supervisor_logs after its _run_command returned or raised
SupervisorFinish(r) ==
    LET inner ==
            IF r.kind = "raise" THEN r.exc
            ELSE IF r.completed.exit_status = 0 /\ r.completed.stdout # <<>>
            THEN NoExc
            ELSE IF r.completed.stderr # <<>>
            THEN Exc("SSHError", <<"ha supervisor logs failed: ">>
                     \o SubSeq(r.completed.stderr, 1,
                               Min(StderrLimit, Len(r.completed.stderr))))
            ELSE Exc("SSHError", <<"ha supervisor logs returned empty output">>)
    IN  IF inner = NoExc
        THEN Ret(LogPayload(<<"ha supervisor logs">>, r.completed.stdout))
        ELSE IF IsInstance(inner.type, "SSHError") /\ MentionsNotFound(inner.msg)
        THEN Raise(Exc("SSHError",
                <<"Supervisor logs not available. ",
                  "This requires HA OS or Supervised installation.">>))
        ELSE Raise(inner)

\* test_connection letting the SSHError of _run_command through
TestConnectionFinish_reraises(cfg, r) ==
    IF r.kind = "return"
    THEN Ret([type |-> "dict",
              text |-> <<"success=True", "SSH connection successful">>])
    ELSE Raise(r.exc)

\* test_connection after its _run_command returned or raised
TestConnectionFinish(cfg, r) ==
    IF r.kind = "return"
    THEN Ret([type |-> "dict",
              text |-> <<"success=True", "SSH connection successful">>])
    ELSE IF IsInstance(r.exc.type, "SSHError")
    THEN Ret([type |-> "dict", text |-> <<"success=False", "error=">> \o r.exc.msg])
    ELSE Raise(r.exc)

SshIdle(installed) ==
    [pc |-> "idle", installed |-> installed,
     caller |-> "none", entry |-> "none", kind |-> None,
     strategy |-> 0, steps |-> <<>>, tried |-> <<>>, connects |-> 0,
     open |-> 0, last |-> CommandNotRun, outcome |-> Ret(NoValue)]

SshDone(s, outcome) == [s EXCEPT !.pc = "done", !.outcome = outcome]

\* _run_command(command) is entered: its checks run up to the connection
\* attempt; CommandDone is what its caller does with its result
RECURSIVE StartCommand(_, _, _, _)
RECURSIVE CommandDone(_, _, _, _)
StartCommand(cfg, installed, s, command) ==
    LET pre == RunPrelude(cfg, installed)
        s1 == [s EXCEPT !.steps = pre.steps, !.tried = Append(@, command)]
    IN  IF pre.exc = NoExc
        THEN [s1 EXCEPT !.pc = "connecting", !.connects = @ + 1]
        ELSE CommandDone(cfg, installed, s1, CommandRaise(pre.exc))

CommandDone(cfg, installed, s0, r) ==
    LET s == [s0 EXCEPT !.last = r]     \* what _run_command gave its caller
    IN
    CASE s.entry = "_run_command" ->
            SshDone(s, IF r.kind = "return" THEN Ret(NoValue) ELSE Raise(r.exc))
      [] s.entry = "test_connection" ->
            SshDone(s, TestConnectionFinish(cfg, r))
      [] s.entry = "get_logs" /\ s.kind = <<"supervisor">> ->
            IF r.kind = "raise" /\ ~IsInstance(r.exc.type, "SSHError")
            THEN SshDone(s, Raise(r.exc))
            ELSE SshDone(s, SupervisorFinish(r))
      [] s.entry = "get_logs" /\ s.kind = <<"core">> ->
            IF r.kind = "return" /\ r.completed.exit_status = 0
               /\ r.completed.stdout # <<>>
            THEN SshDone(s, Ret(LogPayload(CoreStrategies[s.strategy].source,
                                           r.completed.stdout)))
            ELSE IF r.kind = "raise" /\ ~IsInstance(r.exc.type, "SSHError")
            THEN SshDone(s, Raise(r.exc))
            ELSE IF s.strategy < Len(CoreStrategies)
            THEN StartCommand(cfg, installed,
                              [s EXCEPT !.strategy = @ + 1],
                              CoreStrategies[s.strategy + 1].command)
            ELSE SshDone(s, Raise(Exc("SSHError",
                    <<"Could not retrieve core logs. ",
                      "Tried: ha core logs, common log files, journalctl">>)))

\* an SSH client operation is entered and runs up to its first await
SshBegin(cfg, installed, caller, entry, kind) ==
    LET s0 == [SshIdle(installed) EXCEPT
                  !.caller = caller, !.entry = entry, !.kind = kind]
    IN  CASE entry = "_connect" ->
                LET c == ConnectPrelude(cfg, installed)
                    s1 == [s0 EXCEPT !.steps = c.steps]
                IN  IF c.exc = NoExc
                    THEN [s1 EXCEPT !.pc = "connecting", !.connects = @ + 1]
                    ELSE SshDone(s1, Raise(c.exc))
          [] entry = "_run_command" ->
                StartCommand(cfg, installed, s0, WhoamiCommand)
          [] entry = "test_connection" ->
                IF ~cfg.ssh_enable
                THEN SshDone([s0 EXCEPT !.steps = <<"check_enable">>],
                        Ret([type |-> "dict",
                             text |-> <<"success=False", "error=",
                                 "SSH is not enabled (HA_SSH_ENABLE=false)">>]))
                ELSE StartCommand(cfg, installed, s0, WhoamiCommand)
          [] entry = "get_logs" ->
                IF ~cfg.ssh_enable
                THEN SshDone([s0 EXCEPT !.steps = <<"check_enable">>],
                        Raise(Exc("SSHDisabledError",
                            <<"SSH is not enabled. ",
                              "Set HA_SSH_ENABLE=true to use this feature.">>)))
                ELSE IF kind = <<"core">>
                THEN StartCommand(cfg, installed, [s0 EXCEPT !.strategy = 1],
                                  CoreStrategies[1].command)
                ELSE IF kind = <<"supervisor">>
                THEN StartCommand(cfg, installed, [s0 EXCEPT !.strategy = 1],
                                  SupervisorCommand)
                ELSE SshDone(s0, Raise(Exc("SSHError",
                        <<"Unknown log kind: ">> \o kind
                        \o <<". Use 'core' or 'supervisor'.">>)))

(***************************************************************************)
(* HomeAssistantWebSocketClient (ha_ws.py).                                *)
(***************************************************************************)
MaxMessageId == 2       \* commands one client sends in a run of the model

\* what websockets.connect(...) can end with
WsConnectOutcomes == {"ok", "TimeoutError", "OSError", "WebSocketException"}

\* what one ws.recv() under wait_for can end with
Frame(type, id, success, message) ==
    [kind |-> "frame", type |-> type, id |-> id, success |-> success,
     message |-> message, exc |-> "none"]
RecvFailure(exc) ==
    [kind |-> "exception", type |-> "none", id |-> 0, success |-> FALSE,
     message |-> <<>>, exc |-> exc]

WsRecvOutcomes ==
    { Frame(t, 0, FALSE, <<>>) : t \in {"auth_required", "auth_ok", "event"} }
    \cup { Frame("auth_invalid", 0, FALSE, <<"Invalid access token">>) }
    \cup { Frame("result", i, TRUE, <<"config">>) : i \in 1..MaxMessageId }
    \cup { Frame("result", i, FALSE, m) :
             i \in 1..MaxMessageId,
             m \in {<<"Config not found">>, <<"Unknown command">>} }
    \cup { RecvFailure(e) :
             e \in {"TimeoutError", "ConnectionClosed", "JSONDecodeError"} }

WsIdle ==
    [pc |-> "idle", caller |-> "none", op |-> "none", _message_id |-> 0,
     pending |-> 0, received |-> <<>>, sent |-> <<>>, connects |-> 0,
     open |-> 0, auth_exc |-> NoExc, outcome |-> Ret(NoValue)]

\* _authenticate, first frame: what it raises, or NoExc to go on
AuthRequiredStep(o) ==
    IF o.kind = "exception" THEN Exc(o.exc, <<"<recv failure>">>)
    ELSE IF o.type # "auth_required"
    THEN Exc("HomeAssistantWSAuthError", <<"Expected auth_required, got: ", o.type>>)
    ELSE NoExc

\* _authenticate going on after any response that is not auth_invalid
AuthResponseStep_accepts_any(o) ==
    IF o.kind = "exception" THEN Exc(o.exc, <<"<recv failure>">>)
    ELSE IF o.type = "auth_invalid"
    THEN Exc("HomeAssistantWSAuthError", <<"Authentication failed: ">> \o o.message)
    ELSE NoExc

\* _authenticate, the response to the auth message
AuthResponseStep(o) ==
    IF o.kind = "exception" THEN Exc(o.exc, <<"<recv failure>">>)
    ELSE IF o.type = "auth_ok" THEN NoExc
    ELSE IF o.type = "auth_invalid"
    THEN Exc("HomeAssistantWSAuthError", <<"Authentication failed: ">> \o o.message)
    ELSE Exc("HomeAssistantWSAuthError", <<"Unexpected auth response: ", o.type>>)

\* str(e).lower() contains 'no config found' or 'config not found'
RECURSIVE MentionsNoConfig(_)
MentionsNoConfig(msg) ==
    IF msg = <<>> THEN FALSE
    ELSE Head(msg) \in {"Config not found", "No config found"}
         \/ MentionsNoConfig(Tail(msg))

\* the except clauses around the connection, per operation
WsExcept(op, e) ==
    IF op = "list_dashboards" /\ IsInstance(e.type, "HomeAssistantWSError")
    THEN Ret([type |-> "dict",
              text |-> <<"error=">> \o e.msg \o
                  <<"Dashboard listing may not be available in your HA version">>])
    ELSE IF IsInstance(e.type, "TimeoutError")
    THEN Raise(Exc("HomeAssistantWSError",
                   <<"WebSocket timeout after ">> \o TimeoutText \o <<"s">>))
    ELSE IF op = "list_dashboards"
    THEN IF \/ IsInstance(e.type, "ConnectionClosed")
            \/ IsInstance(e.type, "WebSocketException")
            \/ IsInstance(e.type, "OSError")
         THEN Raise(Exc("HomeAssistantWSError", <<"WebSocket error: ", e.type>>))
         ELSE Raise(e)
    ELSE IF IsInstance(e.type, "ConnectionClosed")
    THEN Raise(Exc("HomeAssistantWSError", <<"WebSocket connection closed: ", e.type>>))
    ELSE IF IsInstance(e.type, "WebSocketException")
    THEN Raise(Exc("HomeAssistantWSError", <<"WebSocket error: ", e.type>>))
    ELSE IF IsInstance(e.type, "OSError")
    THEN Raise(Exc("HomeAssistantWSError", <<"Connection failed: ", e.type>>))
    ELSE Raise(e)

\* the frame that answers the pending command: what the operation ends with
CommandAnswer(op, o) ==
    IF o.success
    THEN IF op = "get_lovelace_config"
         THEN Ret([type |-> "dict", text |-> <<"truncated=False">> \o o.message])
         ELSE Ret([type |-> "dict", text |-> <<"dashboards">> \o o.message])
    ELSE LET e == Exc("HomeAssistantWSError", <<"Command failed: ">> \o o.message)
         IN  IF op = "get_lovelace_config" /\ MentionsNoConfig(e.msg)
             THEN Ret([type |-> "dict",
                       text |-> <<"config=None",
                           "No UI-managed Lovelace configuration found.">>])
             ELSE WsExcept(op, e)

CommandType(op) ==
    IF op = "get_lovelace_config" THEN "lovelace/config" ELSE "lovelace/dashboards"

\* the operation is entered: websockets.connect is awaited
WsBegin(w, caller, op) ==
    [WsIdle EXCEPT !._message_id = w._message_id,
                   !.pc = "connecting", !.caller = caller, !.op = op]

\* the operation ends without leaving "async with" properly: the
\* connection stays as it is
WsDone_connection_kept(w, outcome) == [w EXCEPT !.pc = "done", !.outcome = outcome]

\* the connection is closed (leaving "async with") and the operation ends
WsDone(w, outcome) == [w EXCEPT !.pc = "done", !.open = 0, !.outcome = outcome]

\* _authenticate raised e: through "async with" and the except clauses
AuthFailed(w, e) == [WsDone(w, WsExcept(w.op, e)) EXCEPT !.auth_exc = e]

WsAfterConnect(w, outcome) ==
    IF outcome = "ok"
    THEN [w EXCEPT !.pc = "auth_required", !.open = 1, !.connects = @ + 1]
    ELSE WsDone(w, WsExcept(w.op, Exc(outcome, <<"<connect failure>">>)))

WsAfterRecv(w0, o) ==
    LET w == [w0 EXCEPT !.received = Append(@, o)]
    IN
    CASE w.pc = "auth_required" ->
            LET e == AuthRequiredStep(o)
            IN  IF e = NoExc
                THEN [w EXCEPT !.pc = "auth_response",
                               !.sent = Append(@, [type |-> "auth", id |-> 0])]
                ELSE AuthFailed(w, e)
      [] w.pc = "auth_response" ->
            LET e == AuthResponseStep(o)
            IN  IF e = NoExc
                THEN \* _send_command: msg_id = self._next_message_id()
                     [w EXCEPT !.pc = "command",
                               !._message_id = @ + 1,
                               !.pending = w._message_id + 1,
                               !.sent = Append(@, [type |-> CommandType(w.op),
                                                   id |-> w._message_id + 1])]
                ELSE AuthFailed(w, e)
      [] w.pc = "command" ->
            IF o.kind = "exception"
            THEN WsDone(w, WsExcept(w.op, Exc(o.exc, <<"<recv failure>">>)))
            ELSE IF o.id = w.pending        \* response_data.get("id") == msg_id
            THEN WsDone(w, CommandAnswer(w.op, o))
            ELSE w0     \* another id: ignored, the loop receives again

(***************************************************************************)
(* call_tool (server.py): the dispatcher and its exception handlers.       *)
(***************************************************************************)
ErrorResponse(msg) == [kind |-> "error", body |-> msg]
JsonResponse(value) == [kind |-> "json", body |-> value.text]
NoResult == [kind |-> "none", body |-> <<>>]
Propagated(e) == [kind |-> "propagated", body |-> <<e.type>>]

\* the except clauses of call_tool, in source order
Handlers ==
    << [cls |-> "HomeAssistantAuthError", prefix |-> <<"Authentication failed: ">>],
       [cls |-> "HomeAssistantNotFoundError", prefix |-> <<>>],
       [cls |-> "HomeAssistantAPIError", prefix |-> <<"Home Assistant API error: ">>],
       [cls |-> "HomeAssistantWSError", prefix |-> <<"WebSocket error: ">>],
       [cls |-> "SSHDisabledError", prefix |-> <<>>],
       [cls |-> "SSHError", prefix |-> <<"SSH error: ">>],
       [cls |-> "Exception", prefix |-> <<"Unexpected error: ">>] >>

HandlerMessage(h, e) ==
    IF h.cls = "Exception"
    THEN h.prefix \o <<e.type, ": ">> \o e.msg
    ELSE h.prefix \o e.msg

\* the catch-all "except Exception" clause left out
HandleException_no_catch_all(e) ==
    LET matching == { i \in 1..(Len(Handlers) - 1) :
                        IsInstance(e.type, Handlers[i].cls) }
    IN  IF matching = {} THEN Propagated(e)
        ELSE LET first == CHOOSE i \in matching : \A j \in matching : i <= j
             IN  ErrorResponse(HandlerMessage(Handlers[first], e))

HandleException(e) ==
    LET matching == { i \in 1..Len(Handlers) :
                        IsInstance(e.type, Handlers[i].cls) }
    IN  IF matching = {} THEN Propagated(e)
        ELSE LET first == CHOOSE i \in matching : \A j \in matching : i <= j
             IN  ErrorResponse(HandlerMessage(Handlers[first], e))

\* a numeric argument: absent from the dict, an integer, or a string
NumAbsent == [t |-> "absent", v |-> 0]
NumInt(n) == [t |-> "int", v |-> n]
NumStr == [t |-> "str", v |-> 0]

NoArguments ==
    [domain |-> None, service |-> None, entity_id |-> None, query |-> None,
     kind |-> None, hours |-> NumAbsent, lines |-> NumAbsent]

NoParams ==
    [domain |-> None, service |-> None, entity_id |-> None, query |-> None,
     kind |-> None, hours |-> 0, lines |-> 0]

\* what call_tool does up to its first await: the checks it made, in order,
\* and then a result, an exception, or a client operation to await
Step(trace, next, allowed, result, exc, op, params) ==
    [trace |-> trace, next |-> next, allowed |-> allowed, result |-> result,
     exc |-> exc, op |-> op, params |-> params]

DReturn(trace, allowed, result) ==
    Step(trace, "return", allowed, result, NoExc, "none", NoParams)
DRaise(trace, e) ==
    Step(trace, "raise", "unasked", NoResult, e, "none", NoParams)
DAwait(trace, client, allowed, op, params) ==
    Step(Append(trace, "client"), client, allowed, NoResult, NoExc, op, params)

GetEntityBranch(arguments) ==
    IF ~Truthy(arguments.entity_id)
    THEN DReturn(<<"args">>, "unasked", ErrorResponse(<<"entity_id is required">>))
    ELSE DAwait(<<"args">>, "rest", "unasked", "get_entity",
                [NoParams EXCEPT !.entity_id = arguments.entity_id])

SearchEntitiesBranch(arguments) ==
    IF ~Truthy(arguments.query)
    THEN DReturn(<<"args">>, "unasked", ErrorResponse(<<"query is required">>))
    ELSE DAwait(<<"args">>, "rest", "unasked", "search_entities",
                [NoParams EXCEPT !.query = arguments.query])

\* hours = min(arguments.get("hours", 24), 168), then get_history/get_logbook
HoursBranch(op, arguments) ==
    IF arguments.hours.t = "str"
    THEN DRaise(<<>>, Exc("TypeError",
            <<"'<' not supported between instances of 'int' and 'str'">>))
    ELSE DAwait(<<>>, "rest", "unasked", op,
            [NoParams EXCEPT
                !.entity_id = arguments.entity_id,
                !.hours = Min(IF arguments.hours.t = "absent" THEN 24
                              ELSE arguments.hours.v, 168)])

ReadOnlyMessage ==
    <<"Service calls are disabled in read-only mode. ",
      "Set HA_MCP_MODE=readwrite to enable.">>

\* the ha_call_service branch without its read-only check
CallServiceBranch_no_mode_check(cfg, arguments) ==
    IF ~Truthy(arguments.domain) \/ ~Truthy(arguments.service)
    THEN DReturn(<<"mode", "args">>, "unasked",
                 ErrorResponse(<<"domain and service are required">>))
    ELSE IF ~is_allowed(cfg.allowed_services, arguments.domain, arguments.service)
    THEN DReturn(<<"mode", "args", "allowlist">>, "no",
            ErrorResponse(get_denial_message(cfg.allowed_services,
                              arguments.domain, arguments.service)))
    ELSE DAwait(<<"mode", "args", "allowlist">>, "rest", "yes", "call_service",
            [NoParams EXCEPT !.domain = arguments.domain,
                             !.service = arguments.service])

\* the ha_call_service branch forwarding a call the allowlist denied
CallServiceBranch_ignores_denial(cfg, arguments) ==
    IF cfg.mode # "readwrite"
    THEN DReturn(<<"mode">>, "unasked", ErrorResponse(ReadOnlyMessage))
    ELSE IF ~Truthy(arguments.domain) \/ ~Truthy(arguments.service)
    THEN DReturn(<<"mode", "args">>, "unasked",
                 ErrorResponse(<<"domain and service are required">>))
    ELSE DAwait(<<"mode", "args", "allowlist">>, "rest",
            IF is_allowed(cfg.allowed_services, arguments.domain,
                          arguments.service) THEN "yes" ELSE "no",
            "call_service",
            [NoParams EXCEPT !.domain = arguments.domain,
                             !.service = arguments.service])

\* the ha_call_service branch asking the allowlist before it looks at the
\* arguments (None formats as 'None' in f"{domain}.{service}")
CallServiceBranch_allowlist_first(cfg, arguments) ==
    IF cfg.mode # "readwrite"
    THEN DReturn(<<"mode">>, "unasked", ErrorResponse(ReadOnlyMessage))
    ELSE IF ~is_allowed(cfg.allowed_services, arguments.domain, arguments.service)
    THEN DReturn(<<"mode", "allowlist">>, "no",
            ErrorResponse(get_denial_message(cfg.allowed_services,
                              arguments.domain, arguments.service)))
    ELSE IF ~Truthy(arguments.domain) \/ ~Truthy(arguments.service)
    THEN DReturn(<<"mode", "allowlist", "args">>, "yes",
                 ErrorResponse(<<"domain and service are required">>))
    ELSE DAwait(<<"mode", "allowlist", "args">>, "rest", "yes", "call_service",
            [NoParams EXCEPT !.domain = arguments.domain,
                             !.service = arguments.service])

CallServiceBranch(cfg, arguments) ==
    IF cfg.mode # "readwrite"                       \* not config.is_readwrite
    THEN DReturn(<<"mode">>, "unasked", ErrorResponse(ReadOnlyMessage))
    ELSE IF ~Truthy(arguments.domain) \/ ~Truthy(arguments.service)
    THEN DReturn(<<"mode", "args">>, "unasked",
                 ErrorResponse(<<"domain and service are required">>))
    ELSE IF ~is_allowed(cfg.allowed_services, arguments.domain, arguments.service)
    THEN DReturn(<<"mode", "args", "allowlist">>, "no",
            ErrorResponse(get_denial_message(cfg.allowed_services,
                              arguments.domain, arguments.service)))
    ELSE DAwait(<<"mode", "args", "allowlist">>, "rest", "yes", "call_service",
            [NoParams EXCEPT !.domain = arguments.domain,
                             !.service = arguments.service])

SshDisabledMessage ==
    <<"SSH is not enabled. Set HA_SSH_ENABLE=true and configure ",
      "SSH credentials to use this feature.">>

\* the ha_get_full_logs branch without its ssh_enable check
FullLogsBranch_no_enable_check(cfg, arguments) ==
    IF arguments.lines.t = "str"
    THEN DRaise(<<"ssh_enable">>, Exc("TypeError",
            <<"'<' not supported between instances of 'int' and 'str'">>))
    ELSE DAwait(<<"ssh_enable">>, "ssh", "unasked", "get_logs",
            [NoParams EXCEPT
                !.kind = IF arguments.kind = None
                         THEN <<"core">> ELSE arguments.kind,
                !.lines = Min(IF arguments.lines.t = "absent" THEN 500
                              ELSE arguments.lines.v, 2000)])

FullLogsBranch(cfg, arguments) ==
    IF ~cfg.ssh_enable
    THEN DReturn(<<"ssh_enable">>, "unasked", ErrorResponse(SshDisabledMessage))
    ELSE IF arguments.lines.t = "str"
    THEN DRaise(<<"ssh_enable">>, Exc("TypeError",
            <<"'<' not supported between instances of 'int' and 'str'">>))
    ELSE DAwait(<<"ssh_enable">>, "ssh", "unasked", "get_logs",
            [NoParams EXCEPT
                !.kind = IF arguments.kind = None
                         THEN <<"core">> ELSE arguments.kind,
                !.lines = Min(IF arguments.lines.t = "absent" THEN 500
                              ELSE arguments.lines.v, 2000)])

Dispatch(cfg, name, arguments) ==
    CASE name = "ha_ping" ->
            DAwait(<<>>, "rest", "unasked", "ping", NoParams)
      [] name = "ha_list_entities" ->
            DAwait(<<>>, "rest", "unasked", "list_entities",
                   [NoParams EXCEPT !.domain = arguments.domain])
      [] name = "ha_get_entity" -> GetEntityBranch(arguments)
      [] name = "ha_search_entities" -> SearchEntitiesBranch(arguments)
      [] name = "ha_get_history" -> HoursBranch("get_history", arguments)
      [] name = "ha_get_logbook" -> HoursBranch("get_logbook", arguments)
      [] name = "ha_get_error_log" ->
            DAwait(<<>>, "rest", "unasked", "get_error_log", NoParams)
      [] name = "ha_get_lovelace_config" ->
            DAwait(<<>>, "ws", "unasked", "get_lovelace_config", NoParams)
      [] name = "ha_call_service" -> CallServiceBranch(cfg, arguments)
      [] name = "ha_get_full_logs" -> FullLogsBranch(cfg, arguments)
      [] OTHER ->
            DReturn(<<>>, "unasked", ErrorResponse(<<"Unknown tool: ", name>>))

(***************************************************************************)
(* The server: one call_tool invocation at a time, driven through its      *)
(* awaits; the clients' operations called directly; shutdown's cleanup.    *)
(***************************************************************************)
\* no allowlist query asked yet
NoProbe ==
    [asked |-> FALSE, domain |-> <<>>, service |-> <<>>,
     allowed |-> FALSE, denial |-> <<>>]

IdleInv ==
    [pc |-> "idle", name |-> "none", arguments |-> NoArguments, trace |-> <<>>,
     allowed |-> "unasked", exc |-> NoExc, result |-> NoResult]

RestInit ==
    [session |-> "none", op |-> "none", params |-> NoParams, method |-> "none",
     path |-> <<>>, attempts |-> 0, log |-> <<>>, sent |-> <<>>,
     request_result |-> Ret(NoValue), outcome |-> Ret(NoValue)]

RestIdle(r) == [RestInit EXCEPT !.session = r.session]
WsReset(w) == [WsIdle EXCEPT !._message_id = w._message_id]

\* call_tool returns: the client's value as JSON, or the handler's payload
GateFinish(i, r) ==
    [i EXCEPT !.pc = "done",
              !.exc = r.exc,
              !.result = IF r.kind = "return" THEN JsonResponse(r.value)
                         ELSE HandleException(r.exc)]

NothingInFlight ==
    /\ inv.pc = "idle"
    /\ ssh.pc = "idle"
    /\ ws.pc = "idle"

\* the finished operation's result is handed to its caller
Deliver ==
    /\ \/ inv.pc = "done"
       \/ inv.pc = "idle" /\ (ssh.pc = "done" \/ ws.pc = "done")
    /\ inv' = IdleInv
    /\ rest' = RestIdle(rest)
    /\ ssh' = SshIdle(ssh.installed)
    /\ ws' = WsReset(ws)
    /\ UNCHANGED <<env_value, config, probe>>

\* call_tool treating the server as read-write once a REST session is open
CallTool_mode_from_session(name, arguments) ==
    /\ NothingInFlight
    /\ name = "ha_get_lovelace_config" => ws._message_id < MaxMessageId
    /\ LET d == Dispatch(IF rest.session = "open"
                        THEN [config EXCEPT !.mode = "readwrite"]
                        ELSE config, name, arguments)
           base == [IdleInv EXCEPT !.name = name, !.arguments = arguments,
                                   !.trace = d.trace, !.allowed = d.allowed]
           s == IF d.next = "ssh"
                THEN SshBegin(config, ssh.installed, "gate", "get_logs",
                              d.params.kind)
                ELSE SshIdle(ssh.installed)
       IN  /\ inv' = CASE d.next = "return" ->
                            [base EXCEPT !.pc = "done", !.result = d.result]
                       [] d.next = "raise" -> GateFinish(base, Raise(d.exc))
                       [] d.next = "ssh" /\ s.pc = "done" ->
                            GateFinish(base, s.outcome)
                       [] OTHER -> [base EXCEPT !.pc = d.next]
           /\ rest' = IF d.next = "rest"
                      THEN [RestIdle(rest) EXCEPT
                               !.op = d.op, !.params = d.params,
                               !.method = RestOp(d.op, d.params).method,
                               !.path = RestOp(d.op, d.params).path]
                      ELSE RestIdle(rest)
           /\ ssh' = s
           /\ ws' = IF d.next = "ws" THEN WsBegin(ws, "gate", d.op)
                    ELSE WsReset(ws)
    /\ UNCHANGED <<env_value, config, probe>>

\* call_tool(name, arguments) is entered and runs up to its first await
CallTool(name, arguments) ==
    /\ NothingInFlight
    /\ name = "ha_get_lovelace_config" => ws._message_id < MaxMessageId
    /\ LET d == Dispatch(config, name, arguments)
           base == [IdleInv EXCEPT !.name = name, !.arguments = arguments,
                                   !.trace = d.trace, !.allowed = d.allowed]
           s == IF d.next = "ssh"
                THEN SshBegin(config, ssh.installed, "gate", "get_logs",
                              d.params.kind)
                ELSE SshIdle(ssh.installed)
       IN  /\ inv' = CASE d.next = "return" ->
                            [base EXCEPT !.pc = "done", !.result = d.result]
                       [] d.next = "raise" -> GateFinish(base, Raise(d.exc))
                       [] d.next = "ssh" /\ s.pc = "done" ->
                            GateFinish(base, s.outcome)
                       [] OTHER -> [base EXCEPT !.pc = d.next]
           /\ rest' = IF d.next = "rest"
                      THEN [RestIdle(rest) EXCEPT
                               !.op = d.op, !.params = d.params,
                               !.method = RestOp(d.op, d.params).method,
                               !.path = RestOp(d.op, d.params).path]
                      ELSE RestIdle(rest)
           /\ ssh' = s
           /\ ws' = IF d.next = "ws" THEN WsBegin(ws, "gate", d.op)
                    ELSE WsReset(ws)
    /\ UNCHANGED <<env_value, config, probe>>

\* one attempt of _request: _get_client, client.request, _handle_response,
\* then tenacity's decision, and on the last attempt the rest of call_tool
RestAttempt(outcome) ==
    /\ inv.pc = "rest"
    /\ LET n == rest.attempts + 1
           r == RequestOnce(outcome, rest.path)
           retry == ShouldRetry(r, n)
           final == ApiFinish(rest.op, r)
       IN  /\ rest' = [rest EXCEPT
                          !.session = "open",
                          !.attempts = n,
                          !.log = Append(@, outcome),
                          !.sent = Append(@, [method |-> rest.method,
                                              path |-> rest.path]),
                          !.request_result = IF retry THEN @ ELSE r,
                          !.outcome = IF retry THEN @ ELSE final]
           /\ inv' = IF retry THEN inv ELSE GateFinish(inv, final)
    /\ UNCHANGED <<env_value, config, probe, ssh, ws>>

\* HomeAssistantRestClient.close(), as cleanup() calls it
RestClose ==
    /\ NothingInFlight
    /\ rest.session = "open"
    /\ rest' = RestInit
    /\ inv' = IdleInv
    /\ ssh' = SshIdle(ssh.installed)
    /\ ws' = WsReset(ws)
    /\ UNCHANGED <<env_value, config, probe>>

SshEntries == {"get_logs", "test_connection", "_run_command", "_connect"}

\* an SSHLogClient operation called directly, not through call_tool
SshDirectCall(entry, kind) ==
    /\ NothingInFlight
    /\ entry # "get_logs" => kind = <<"core">>
    /\ ssh' = SshBegin(config, ssh.installed, "direct", entry, kind)
    /\ inv' = IdleInv
    /\ rest' = RestIdle(rest)
    /\ ws' = WsReset(ws)
    /\ UNCHANGED <<env_value, config, probe>>

WsOps == {"get_lovelace_config", "list_dashboards"}

\* a WebSocket client operation called directly, not through call_tool
WsDirectCall(op) ==
    /\ NothingInFlight
    /\ ws._message_id < MaxMessageId
    /\ ws' = WsBegin(ws, "direct", op)
    /\ inv' = IdleInv
    /\ rest' = RestIdle(rest)
    /\ ssh' = SshIdle(ssh.installed)
    /\ UNCHANGED <<env_value, config, probe>>

\* the invocation awaiting the WebSocket operation, once that operation is over
AfterWs(w) ==
    IF w.pc = "done" /\ w.caller = "gate" THEN GateFinish(inv, w.outcome) ELSE inv

\* the invocation awaiting the SSH operation, once that operation is over
AfterSsh(s) ==
    IF s.pc = "done" /\ s.caller = "gate" THEN GateFinish(inv, s.outcome) ELSE inv

\* asyncssh.connect(...) under wait_for ends
SshConnected(outcome) ==
    /\ ssh.pc = "connecting"
    /\ LET r == ConnectResult(outcome)
           s == IF r.kind = "return"
                THEN IF ssh.entry = "_connect"
                     THEN SshDone([ssh EXCEPT !.open = 1], r)
                     ELSE [ssh EXCEPT !.pc = "running", !.open = 1,
                                      !.steps = Append(@, "exec")]
                ELSE IF ssh.entry = "_connect"
                     THEN SshDone(ssh, r)
                     ELSE CommandDone(config, ssh.installed, ssh,
                                      CommandRaise(r.exc))
       IN  /\ ssh' = s
           /\ inv' = AfterSsh(s)
    /\ UNCHANGED <<env_value, config, probe, rest, ws>>

\* conn.run(...) under wait_for ends; the finally clause closes the connection
SshRan(outcome) ==
    /\ ssh.pc = "running"
    /\ LET timeout == IF ssh.entry = "get_logs" THEN "30" ELSE TimeoutText[1]
           closed == [ssh EXCEPT !.open = 0, !.steps = Append(@, "close")]
           s == CommandDone(config, ssh.installed, closed,
                            RunResult(outcome, timeout))
       IN  /\ ssh' = s
           /\ inv' = AfterSsh(s)
    /\ UNCHANGED <<env_value, config, probe, rest, ws>>

\* websockets.connect(...) ends
WsConnected(outcome) ==
    /\ ws.pc = "connecting"
    /\ LET w == WsAfterConnect(ws, outcome)
       IN  /\ ws' = w
           /\ inv' = AfterWs(w)
    /\ UNCHANGED <<env_value, config, probe, rest, ssh>>

\* one ws.recv() under wait_for ends
WsReceive(o) ==
    /\ ws.pc \in {"auth_required", "auth_response", "command"}
    /\ LET w == WsAfterRecv(ws, o)
       IN  /\ ws' = w
           /\ inv' = AfterWs(w)
    /\ UNCHANGED <<env_value, config, probe, rest, ssh>>

(***************************************************************************)
(* Configurations, tool names and arguments of the server's runs.          *)
(***************************************************************************)
Modes == {"readonly", "readwrite"}

SshSettings ==
    { [ssh_enable |-> FALSE, ssh_host |-> None, ssh_user |-> None],
      [ssh_enable |-> TRUE, ssh_host |-> <<"h">>, ssh_user |-> <<"u">>],
      [ssh_enable |-> TRUE, ssh_host |-> None, ssh_user |-> <<"u">>] }

GateEnvInputs == { None, <<"a", ".", "*">>, <<"*">> }

MakeConfig(mode, sshs, env) ==
    [mode |-> mode, ssh_enable |-> sshs.ssh_enable,
     ssh_host |-> sshs.ssh_host, ssh_user |-> sshs.ssh_user,
     allowed_services |-> ServiceAllowlist_from_env(env)]

ToolNames ==
    { "ha_ping", "ha_list_entities", "ha_get_entity", "ha_search_entities",
      "ha_get_history", "ha_get_logbook", "ha_get_error_log",
      "ha_get_lovelace_config", "ha_call_service", "ha_get_full_logs",
      "ha_restart" }

EntityId == <<"a", ".", "x">>

ArgumentsFor(name) ==
    CASE name = "ha_list_entities" ->
            { [NoArguments EXCEPT !.domain = d] : d \in {None, <<"a">>} }
      [] name = "ha_get_entity" ->
            { [NoArguments EXCEPT !.entity_id = e] : e \in {None, <<>>, EntityId} }
      [] name = "ha_search_entities" ->
            { [NoArguments EXCEPT !.query = q] : q \in {None, <<>>, <<"q">>} }
      [] name \in {"ha_get_history", "ha_get_logbook"} ->
            { [NoArguments EXCEPT !.entity_id = e, !.hours = h] :
                e \in {None, EntityId},
                h \in {NumAbsent, NumInt(1), NumInt(500), NumStr} }
      [] name = "ha_call_service" ->
            { [NoArguments EXCEPT !.domain = d, !.service = sv] :
                d \in {None, <<>>, <<"a">>, <<"b">>, <<"a", ".", "b">>},
                sv \in {None, <<>>, <<"c">>} }
      [] name = "ha_get_full_logs" ->
            { [NoArguments EXCEPT !.kind = k] :
                k \in {None, <<"core">>, <<"supervisor">>, <<"x">>} }
            \cup { [NoArguments EXCEPT !.lines = l] : l \in {NumInt(5000), NumStr} }
      [] OTHER -> { NoArguments }

Init ==
    /\ env_value \in GateEnvInputs
    /\ config \in { MakeConfig(m, sshs, env_value) : m \in Modes, sshs \in SshSettings }
    /\ probe = NoProbe
    /\ inv = IdleInv
    /\ rest = RestInit
    /\ ssh \in { SshIdle(installed) : installed \in BOOLEAN }
    /\ ws = WsIdle

Next ==
    \/ \E name \in ToolNames : \E arguments \in ArgumentsFor(name) :
            CallTool(name, arguments)
    \/ \E outcome \in HubOutcomes : RestAttempt(outcome)
    \/ Deliver
    \/ RestClose
    \/ \E entry \in SshEntries, kind \in {<<"core">>, <<"supervisor">>} :
            SshDirectCall(entry, kind)
    \/ \E outcome \in SshConnectOutcomes : SshConnected(outcome)
    \/ \E outcome \in SshRunOutcomes : SshRan(outcome)
    \/ \E op \in WsOps : WsDirectCall(op)
    \/ \E outcome \in WsConnectOutcomes : WsConnected(outcome)
    \/ \E o \in WsRecvOutcomes : WsReceive(o)

Spec == Init /\ [][Next]_vars

(***************************************************************************)
(* Inputs of the allowlist: HA_ALLOWED_SERVICES values built by joining up *)
(* to MaxEntries entries with commas, and the (domain, service) pairs a    *)
(* caller asks about.                                                      *)
(***************************************************************************)
Entries ==
    { <<"a", ".", "*">>,                \* domain wildcard
      <<"a", ".", "c">>,                \* exact
      <<"*">>,                          \* full wildcard
      <<" ", "*", " ">>,                \* full wildcard, padded
      <<" ", "b", ".", "*">>,           \* domain wildcard, padded
      <<>>,                             \* empty entry
      <<" ">>,                          \* blank entry
      <<"A", ".", "*">>,                \* upper case: invalid
      <<"a", ".", "b", ".", "c">>,      \* two dots: invalid
      <<"a", "\n", ".", "c">> }         \* a newline ends the domain token

EnvInputs ==
    {None} \cup
    UNION { { Join(es, <<",">>) : es \in [1..n -> Entries] } : n \in 1..MaxEntries }

QueryDomains ==
    { <<"a">>, <<"b">>, <<"a", "b">>, <<"a", ".", "b">>, <<"A">>, <<>> }

QueryServices ==
    { <<"c">>, <<>>, <<"b", ".", "c">>, <<"*">> }

\* a caller asks the allowlist about (domain, service)
IsAllowedQuery(domain, service) ==
    /\ probe' = [asked |-> TRUE, domain |-> domain, service |-> service,
                 allowed |-> is_allowed(config.allowed_services, domain, service),
                 denial |-> get_denial_message(config.allowed_services,
                                               domain, service)]
    /\ UNCHANGED <<env_value, config, inv, rest, ssh, ws>>

\* MCPConfig as the allowlist queries need it
AllowConfig(env) ==
    [mode |-> "readwrite", ssh_enable |-> FALSE,
     ssh_host |-> None, ssh_user |-> None,
     allowed_services |-> ServiceAllowlist_from_env(env)]

InitAllow ==
    /\ env_value \in EnvInputs
    /\ config = AllowConfig(env_value)
    /\ probe = NoProbe
    /\ inv = IdleInv
    /\ rest = RestInit
    /\ ssh = SshIdle(FALSE)
    /\ ws = WsIdle

NextAllow ==
    \E d \in QueryDomains, s \in QueryServices : IsAllowedQuery(d, s)

SpecAllow == InitAllow /\ [][NextAllow]_vars

(***************************************************************************)
(* Allowlist properties (checked under SpecAllow).                         *)
(***************************************************************************)
Patterns == config.allowed_services.patterns
AllowAll == config.allowed_services.allow_all

\* p is 'domain.*': one dot, and the service token is '*'
IsDomainWildcard(p) ==
    /\ Len(p) >= 3
    /\ Count(p, ".") = 1
    /\ SubSeq(p, Len(p) - 1, Len(p)) = <<".", "*">>

WildcardDomain(p) == SubSeq(p, 1, Len(p) - 2)

\* another pattern than the i-th names the asked domain or the asked call
CoveredByOther(i) ==
    \E j \in 1..Len(Patterns) :
        /\ j # i
        /\ \/ Patterns[j] = FullService(probe.domain, probe.service)
           \/ Patterns[j] = probe.domain \o <<".", "*">>

\* C6: for every valid pattern 'domain.*' of the allowlist, is_allowed is
\* true for every service of that domain and false for every other domain
\* that no other pattern covers, whatever strings the caller passes.
C6_WildcardCoversOnlyItsDomain ==
    (probe.asked /\ ~AllowAll) =>
        \A i \in 1..Len(Patterns) :
            IsDomainWildcard(Patterns[i]) =>
                /\ probe.domain = WildcardDomain(Patterns[i]) => probe.allowed
                /\ (probe.domain # WildcardDomain(Patterns[i])
                    /\ ~CoveredByOther(i)) => ~probe.allowed

\* the input has an entry that is '*' once surrounding whitespace is dropped:
\* a '*' with only whitespace between it and the commas (or ends) around it
HasStarToken(env) ==
    /\ env # None
    /\ \E i \in 1..Len(env) :
        /\ env[i] = "*"
        /\ \E lo \in 1..i, hi \in i..Len(env) :
            /\ lo = 1 \/ env[lo - 1] = ","
            /\ hi = Len(env) \/ env[hi + 1] = ","
            /\ \A k \in lo..hi : k # i => env[k] \in Whitespace

\* C7: allow_all is true iff '*' is one of the comma-separated entries of
\* the input, and then is_allowed answers true for every call.
C7_AllowAllIffStarEntry ==
    /\ AllowAll <=> HasStarToken(env_value)
    /\ (probe.asked /\ AllowAll) => probe.allowed

\* an allow-all list built from several entries answers true for a call that
\* none of its other entries names
C7_Witness ==
    /\ probe.asked /\ probe.allowed /\ AllowAll
    /\ Len(Patterns) = 2
    /\ env_value # <<"*", ",", "*">>
    /\ probe.domain = <<"A">>

\* Glob matching told as sets of reachable positions: Reach(k) holds the
\* lengths j such that the first k pattern characters match name[1..j],
\* '*' being the only special character.
RECURSIVE RefReach(_, _, _)
RefReach(name, pat, k) ==
    IF k = 0 THEN {0}
    ELSE LET prev == RefReach(name, pat, k - 1)
         IN  IF pat[k] = "*"
             THEN { j \in 0..Len(name) : \E i \in prev : i <= j }
             ELSE { i + 1 : i \in { x \in prev :
                                      x < Len(name) /\ name[x + 1] = pat[k] } }

RefGlob(name, pat) == Len(name) \in RefReach(name, pat, Len(pat))

RefAllowed(al, domain, service) ==
    \/ al.allow_all
    \/ /\ al.patterns # <<>>
       /\ \E p \in { al.patterns[i] : i \in 1..Len(al.patterns) } :
            \/ p = FullService(domain, service)
            \/ RefGlob(FullService(domain, service), p)

Reversed(seq) == [i \in 1..Len(seq) |-> seq[Len(seq) + 1 - i]]

\* C8: is_allowed equals the reference: true if allow_all, else false with
\* no patterns, else true iff 'domain.service' equals or glob-matches some
\* pattern; false for every call when no patterns are configured; and the
\* same answer for the patterns in the opposite order.
C8_IsAllowedIsReference ==
    probe.asked =>
        /\ probe.allowed
             = RefAllowed(config.allowed_services, probe.domain, probe.service)
        /\ (Patterns = <<>>) => ~probe.allowed
        /\ probe.allowed
             = is_allowed([config.allowed_services EXCEPT
                              !.patterns = Reversed(Patterns)],
                          probe.domain, probe.service)

\* a call allowed by the second of two patterns, through its wildcard
C8_Witness ==
    /\ probe.asked /\ probe.allowed /\ ~AllowAll
    /\ Len(Patterns) = 2
    /\ Patterns[1] # Patterns[2]
    /\ ~RefGlob(FullService(probe.domain, probe.service), Patterns[1])
    /\ Patterns[2] # FullService(probe.domain, probe.service)

(***************************************************************************)
(* Properties of the server (checked under Spec).                          *)
(***************************************************************************)
IsPrefix(a, b) == Len(a) <= Len(b) /\ SubSeq(b, 1, Len(a)) = a

\* an invocation of the named tool is in flight or has just finished
Invoked(name) == inv.pc # "idle" /\ inv.name = name

\* the invocation in hand reached no client at all
NoClientReached ==
    /\ rest.op = "none" /\ rest.sent = <<>> /\ rest.attempts = 0
    /\ ssh.pc = "idle" /\ ssh.caller = "none"
    /\ ws.pc = "idle" /\ ws.sent = <<>>
    /\ ~InSeq("client", inv.trace)

ArgDomain == inv.arguments.domain
ArgService == inv.arguments.service

\* C1: a read-write ha_call_service with non-empty domain and service that
\* the allowlist denies ends with the error payload get_denial_message
\* gives (it names 'domain.service', and lists the configured patterns or
\* says that none are allowlisted) and reaches no client; and every
\* service-call POST sent belongs to an invocation whose own is_allowed
\* query for that very domain and service returned true.
C1_DeniedCallNeverReachesTransport ==
    /\ ( /\ Invoked("ha_call_service")
         /\ config.mode = "readwrite"
         /\ Truthy(ArgDomain) /\ Truthy(ArgService)
         /\ ~is_allowed(config.allowed_services, ArgDomain, ArgService) )
       => /\ inv.pc = "done"
          /\ inv.allowed = "no"
          /\ inv.exc = NoExc
          /\ inv.result = ErrorResponse(
                get_denial_message(config.allowed_services, ArgDomain, ArgService))
          /\ IsPrefix(<<"Service call '">> \o ArgDomain \o <<".">> \o ArgService,
                      inv.result.body)
          /\ IF config.allowed_services.patterns = <<>>
             THEN InSeq("' denied: no services are allowlisted. ", inv.result.body)
             ELSE \E k \in 1..Len(inv.result.body) :
                    /\ inv.result.body[k] = "Allowed patterns: "
                    /\ SubSeq(inv.result.body, k + 1, Len(inv.result.body))
                         = Join(config.allowed_services.patterns, <<", ">>)
          /\ NoClientReached
    /\ (rest.op = "call_service" \/ rest.method = "POST"
            \/ \E i \in 1..Len(rest.sent) : rest.sent[i].method = "POST")
       => /\ Invoked("ha_call_service")
          /\ inv.allowed = "yes"
          /\ is_allowed(config.allowed_services, ArgDomain, ArgService)
          /\ inv.trace = <<"mode", "args", "allowlist", "client">>
          /\ \A i \in 1..Len(rest.sent) :
                rest.sent[i] = [method |-> "POST",
                                path |-> ServicePath(ArgDomain, ArgService)]

\* a denied call, with patterns configured, has returned its denial
C1_Witness ==
    /\ Invoked("ha_call_service") /\ inv.pc = "done"
    /\ config.mode = "readwrite"
    /\ config.allowed_services.patterns # <<>>
    /\ Truthy(ArgDomain) /\ Truthy(ArgService)
    /\ inv.allowed = "no"

LogReadCommands ==
    { CoreStrategies[i].command : i \in 1..Len(CoreStrategies) }
    \cup { SupervisorCommand }

\* C2: in read-only mode no POST is ever sent: ha_call_service ends with the
\* read-only error payload without asking the allowlist and without reaching
\* a client, and the other tools send only GET requests, the WebSocket
\* authentication and lovelace read command, or SSH log-read commands.
C2_ReadOnlyNeverPosts ==
    config.mode = "readonly" =>
        /\ rest.method \in {"none", "GET"}
        /\ rest.op # "call_service"
        /\ \A i \in 1..Len(rest.sent) : rest.sent[i].method = "GET"
        /\ Invoked("ha_call_service")
           => /\ inv.pc = "done"
              /\ inv.result = ErrorResponse(ReadOnlyMessage)
              /\ inv.exc = NoExc
              /\ inv.allowed = "unasked"
              /\ inv.trace = <<"mode">>
              /\ NoClientReached
        /\ \A i \in 1..Len(ws.sent) :
              ws.sent[i].type \in {"auth", "lovelace/config", "lovelace/dashboards"}
        /\ ssh.caller = "gate"
           => \A i \in 1..Len(ssh.tried) : ssh.tried[i] \in LogReadCommands

\* read-only mode refused a call that the allowlist would have let through
C2_Witness ==
    /\ config.mode = "readonly"
    /\ Invoked("ha_call_service") /\ inv.pc = "done"
    /\ Truthy(ArgDomain) /\ Truthy(ArgService)
    /\ is_allowed(config.allowed_services, ArgDomain, ArgService)

TaxonomyRoots == {"HomeAssistantAPIError", "HomeAssistantWSError", "SSHError"}
InTaxonomy(type) == \E c \in TaxonomyRoots : IsInstance(type, c)

\* C3: every finished call_tool invocation returned a success payload or
\* an {error: message} payload, whatever the client raised; an exception
\* outside the error taxonomy is reported as
\* "Unexpected error: <kind name>: <message>".
C3_AlwaysAPayload ==
    /\ inv.pc = "done"
       => /\ inv.result.kind \in {"json", "error"}
          /\ inv.exc # NoExc => inv.result.kind = "error"
          /\ (inv.exc # NoExc /\ ~InTaxonomy(inv.exc.type))
             => inv.result.body = <<"Unexpected error: ", inv.exc.type, ": ">>
                                  \o inv.exc.msg
    /\ inv.result.kind # "propagated"

\* a transport failure outside the taxonomy reached call_tool's handlers
C3_Witness ==
    /\ inv.pc = "done"
    /\ inv.exc.type = "ConnectError"
    /\ rest.attempts = MaxAttempts

\* C4 as stated: with ssh_enable false nothing attempts a connection, the
\* tool returns the disabled payload without invoking the SSH client, and
\* every SSH client operation ends by raising SSHDisabledError, raised by
\* the first step it takes.
C4_EveryOperationRaisesDisabled ==
    ~config.ssh_enable =>
        /\ ssh.connects = 0
        /\ Invoked("ha_get_full_logs")
           => inv.result = ErrorResponse(SshDisabledMessage) /\ ssh.pc = "idle"
        /\ ssh.pc = "done"
           => /\ ssh.outcome.kind = "raise"
              /\ ssh.outcome.exc.type = "SSHDisabledError"
              /\ ssh.steps = <<"check_enable">>

\* C4, amended: with ssh_enable false no operation attempts an SSH
\* connection; the tool returns the disabled payload without invoking the
\* SSH client; get_logs and _connect raise SSHDisabledError as their first
\* step; test_connection returns a success=False payload as its first step;
\* _run_command first imports asyncssh, raising SSHError when it is not
\* installed and SSHDisabledError from _connect otherwise.
C4_DisabledNeverConnects ==
    ~config.ssh_enable =>
        /\ ssh.connects = 0 /\ ssh.open = 0
        /\ ssh.pc \in {"idle", "done"}
        /\ ~InSeq("connect", ssh.steps) /\ ~InSeq("exec", ssh.steps)
        /\ Invoked("ha_get_full_logs")
           => /\ inv.pc = "done"
              /\ inv.result = ErrorResponse(SshDisabledMessage)
              /\ inv.exc = NoExc
              /\ NoClientReached
        /\ ssh.caller # "gate"
        /\ (ssh.pc = "done" /\ ssh.entry \in {"get_logs", "_connect"})
           => /\ ssh.outcome.kind = "raise"
              /\ ssh.outcome.exc.type = "SSHDisabledError"
              /\ ssh.steps = <<"check_enable">>
        /\ (ssh.pc = "done" /\ ssh.entry = "test_connection")
           => /\ ssh.outcome.kind = "return"
              /\ Head(ssh.outcome.value.text) = "success=False"
              /\ ssh.steps = <<"check_enable">>
        /\ (ssh.pc = "done" /\ ssh.entry = "_run_command")
           => /\ ssh.outcome.kind = "raise"
              /\ IF ssh.installed
                 THEN /\ ssh.outcome.exc.type = "SSHDisabledError"
                      /\ ssh.steps = <<"import_asyncssh", "check_enable">>
                 ELSE /\ ssh.outcome.exc.type = "SSHError"
                      /\ ssh.steps = <<"import_asyncssh">>

\* test_connection was called with SSH disabled and has ended
C4_Witness ==
    /\ ~config.ssh_enable
    /\ ssh.pc = "done"
    /\ ssh.entry = "test_connection"

\* C5: ha_get_entity without entity_id, ha_search_entities without query and
\* a read-write ha_call_service without domain or service each end with
\* their validation payload, raise nothing and reach no client; and
\* ha_call_service runs its checks in the order mode, arguments, allowlist,
\* transport, asking the allowlist exactly when the mode is readwrite and
\* both arguments are present.
C5_ValidationBeforeTransport ==
    /\ (Invoked("ha_get_entity") /\ ~Truthy(inv.arguments.entity_id))
       => /\ inv.pc = "done"
          /\ inv.result = ErrorResponse(<<"entity_id is required">>)
          /\ inv.exc = NoExc
          /\ NoClientReached
    /\ (Invoked("ha_search_entities") /\ ~Truthy(inv.arguments.query))
       => /\ inv.pc = "done"
          /\ inv.result = ErrorResponse(<<"query is required">>)
          /\ inv.exc = NoExc
          /\ NoClientReached
    /\ ( /\ Invoked("ha_call_service") /\ config.mode = "readwrite"
         /\ (~Truthy(ArgDomain) \/ ~Truthy(ArgService)) )
       => /\ inv.pc = "done"
          /\ inv.result = ErrorResponse(<<"domain and service are required">>)
          /\ inv.exc = NoExc
          /\ inv.trace = <<"mode", "args">>
          /\ NoClientReached
    /\ Invoked("ha_call_service")
       => /\ IsPrefix(inv.trace, <<"mode", "args", "allowlist", "client">>)
          /\ inv.allowed # "unasked"
             <=> ( /\ config.mode = "readwrite"
                   /\ Truthy(ArgDomain) /\ Truthy(ArgService) )
          /\ InSeq("allowlist", inv.trace) <=> inv.allowed # "unasked"

\* a read-write call with a domain but no service, under an empty allowlist
C5_Witness ==
    /\ Invoked("ha_call_service") /\ inv.pc = "done"
    /\ config.mode = "readwrite"
    /\ config.allowed_services.patterns = <<>>
    /\ ~config.allowed_services.allow_all
    /\ Truthy(ArgDomain) /\ ~Truthy(ArgService)

IsTimeout(outcome) ==
    outcome.kind = "exception" /\ IsInstance(outcome.exc, "TimeoutException")

\* C9: a REST request whose attempt timed out is attempted again until
\* MaxAttempts attempts were made: it never ends on a timed-out attempt
\* before its third attempt.
C9_TimeoutsRetriedUpToThree ==
    (rest.log # <<>> /\ IsTimeout(rest.log[Len(rest.log)])
        /\ rest.attempts < MaxAttempts)
    => inv.pc = "rest"

\* C10: a response with status >= 400 is the request's last attempt (none
\* follows it) and makes _request raise: 401 and 403 raise
\* HomeAssistantAuthError, 404 HomeAssistantNotFoundError, any other status
\* HomeAssistantAPIError with the status code and at most the first
\* BodyLimit characters of the body; a status below 400 raises none of them.
C10_HttpErrorsNotRetried ==
    \A i \in 1..Len(rest.log) :
        LET o == rest.log[i]
            r == rest.request_result
        IN  o.kind = "response" =>
              /\ i = Len(rest.log)
              /\ inv.pc = "done"
              /\ o.status >= 400 =>
                    /\ r.kind = "raise"
                    /\ r.exc.status_code = o.status
                    /\ r.exc.type =
                          CASE o.status \in {401, 403} -> "HomeAssistantAuthError"
                            [] o.status = 404 -> "HomeAssistantNotFoundError"
                            [] OTHER -> "HomeAssistantAPIError"
                    /\ o.status \notin {401, 403, 404} =>
                          LET shown == SubSeq(r.exc.msg, 4, Len(r.exc.msg))
                          IN  /\ SubSeq(r.exc.msg, 1, 3)
                                    = <<"API error ", ToString(o.status), ": ">>
                              /\ Len(shown) <= BodyLimit
                              /\ IsPrefix(shown, o.body)
                              /\ Len(shown) = Min(Len(o.body), BodyLimit)
                    /\ (i = 1 => rest.attempts = 1)
              /\ o.status < 400 =>
                    \/ r.kind = "return"
                    \/ ~IsInstance(r.exc.type, "HomeAssistantAPIError")

\* a 500 response with a body longer than BodyLimit ended the request
C10_Witness ==
    /\ inv.pc = "done"
    /\ Len(rest.log) = 1
    /\ rest.log[1].kind = "response"
    /\ rest.log[1].status = 500
    /\ Len(rest.log[1].body) > BodyLimit

(***************************************************************************)
(* Properties of the WebSocket and SSH connections (checked under Spec).   *)
(***************************************************************************)
AuthFrame == [type |-> "auth", id |-> 0]
IsFrameOfType(o, t) == o.kind = "frame" /\ o.type = t
IsFrameNotOfType(o, t) == o.kind = "frame" /\ o.type # t

\* C11: on a WebSocket connection the auth message is the first thing sent
\* and is sent only after a first frame of type auth_required; a first
\* frame of another type makes _authenticate raise HomeAssistantWSAuthError
\* with nothing sent; the command frame is the second thing sent and is sent
\* only after an auth_ok response; a response of another type makes
\* _authenticate raise HomeAssistantWSAuthError and only the auth message
\* was sent on that connection.
C11_HandshakeOrdered ==
    /\ Len(ws.sent) <= 2
    /\ ws.sent # <<>>
       => /\ ws.sent[1] = AuthFrame
          /\ ws.connects = 1
          /\ ws.received # <<>> /\ IsFrameOfType(ws.received[1], "auth_required")
    /\ Len(ws.sent) = 2
       => /\ ws.sent[2].type = CommandType(ws.op)
          /\ ws.sent[2].id = ws._message_id
          /\ Len(ws.received) >= 2 /\ IsFrameOfType(ws.received[2], "auth_ok")
    /\ (ws.received # <<>> /\ IsFrameNotOfType(ws.received[1], "auth_required"))
       => /\ ws.pc = "done"
          /\ ws.sent = <<>>
          /\ ws.auth_exc.type = "HomeAssistantWSAuthError"
          /\ ws.op = "get_lovelace_config" => ws.outcome = Raise(ws.auth_exc)
    /\ (Len(ws.received) >= 2 /\ IsFrameNotOfType(ws.received[2], "auth_ok"))
       => /\ ws.pc = "done"
          /\ ws.sent = <<AuthFrame>>
          /\ ws.auth_exc.type = "HomeAssistantWSAuthError"
          /\ ws.op = "get_lovelace_config" => ws.outcome = Raise(ws.auth_exc)

\* the auth message was answered by a frame that is neither auth_ok nor
\* auth_invalid
C11_Witness ==
    /\ ws.pc = "done"
    /\ Len(ws.received) = 2
    /\ IsFrameOfType(ws.received[2], "event")

\* C12: in get_lovelace_config and in list_dashboards alike, an
\* auth_invalid response to the auth message ends the operation by raising
\* HomeAssistantWSAuthError with the hub's message, and no command frame
\* was sent on that connection.
C12_AuthInvalidRaises ==
    (Len(ws.received) >= 2 /\ IsFrameOfType(ws.received[2], "auth_invalid"))
    => /\ ws.pc = "done"
       /\ ws.sent = <<AuthFrame>>
       /\ ws.outcome.kind = "raise"
       /\ ws.outcome.exc.type = "HomeAssistantWSAuthError"
       /\ ws.outcome.exc.msg = <<"Authentication failed: ">> \o ws.received[2].message

\* C13: a WebSocket or SSH connection opened by an operation is closed when
\* the operation has returned or raised, whichever way it ended, and none
\* is open while no operation runs. (_connect itself returns the open
\* connection to its caller, which closes it.)
C13_ConnectionsReleased ==
    /\ ws.open \in {0, 1} /\ ssh.open \in {0, 1}
    /\ ws.pc \in {"idle", "done", "connecting"} => ws.open = 0
    /\ (ssh.pc \in {"idle", "done", "connecting"} /\ ssh.entry # "_connect")
       => ssh.open = 0
    /\ inv.pc = "done" => ws.open = 0 /\ ssh.open = 0

\* a WebSocket operation that had connected ended on a receive timeout
C13_Witness ==
    /\ ws.pc = "done"
    /\ ws.connects = 1
    /\ ws.received # <<>>
    /\ ws.received[Len(ws.received)].kind = "exception"
    /\ ws.received[Len(ws.received)].exc = "TimeoutError"
    /\ ws.outcome.kind = "raise"

(***************************************************************************)
(* Properties of the SSH log client (checked under Spec).                  *)
(***************************************************************************)
ExpectedCoreCommands ==
    << "ha core logs --lines",
       "tail -n /config/home-assistant.log",
       "tail -n /var/log/home-assistant.log",
       "tail -n /home/homeassistant/.homeassistant/home-assistant.log",
       "journalctl -u home-assistant --no-pager -n" >>

ExpectedCoreSources ==
    << <<"ha core logs">>,
       <<"tail ", "/config/home-assistant.log">>,
       <<"tail ", "/var/log/home-assistant.log">>,
       <<"tail ", "/home/homeassistant/.homeassistant/home-assistant.log">>,
       <<"journalctl">> >>

\* get_logs(kind='core') got past its enable check
CoreLogsRun ==
    /\ ssh.pc # "idle" /\ ssh.entry = "get_logs" /\ ssh.kind = <<"core">>
    /\ config.ssh_enable

\* a strategy's command exited 0 with non-empty output
StrategySucceeded(r) ==
    r.kind = "return" /\ r.completed.exit_status = 0 /\ r.completed.stdout # <<>>

\* a strategy's command raised SSHError, exited non-zero or gave no output
StrategySkipped(r) ==
    \/ r.kind = "raise" /\ IsInstance(r.exc.type, "SSHError")
    \/ r.kind = "return"
       /\ (r.completed.exit_status # 0 \/ r.completed.stdout = <<>>)

\* C14: get_logs(kind='core') runs its strategies in the order ha core
\* logs, tail over the three log paths in list order, journalctl; a later
\* strategy runs only after the one before it was skipped (it raised
\* SSHError, exited non-zero or gave empty output); the first strategy that
\* exits 0 with non-empty output ends the operation, which returns that
\* output labelled with that strategy; and when the last strategy is
\* skipped too the operation raises SSHError naming what it tried.
C14_CoreStrategiesInOrder ==
    CoreLogsRun =>
        /\ IsPrefix(ssh.tried, ExpectedCoreCommands)
        /\ ssh.tried # <<>>
        /\ ssh.strategy = Len(ssh.tried)
        /\ ssh.pc \in {"connecting", "running"}
           => IF Len(ssh.tried) = 1 THEN ssh.last = CommandNotRun
              ELSE StrategySkipped(ssh.last)
        /\ ssh.pc = "done"
           => /\ ssh.last # CommandNotRun
              /\ StrategySucceeded(ssh.last)
                 => ssh.outcome =
                       Ret([type |-> "dict",
                            text |-> <<"source=">>
                                     \o ExpectedCoreSources[Len(ssh.tried)]
                                     \o <<"log=">> \o ssh.last.completed.stdout])
              /\ StrategySkipped(ssh.last)
                 => /\ Len(ssh.tried) = Len(ExpectedCoreCommands)
                    /\ ssh.outcome =
                          Raise(Exc("SSHError",
                            <<"Could not retrieve core logs. ",
                              "Tried: ha core logs, common log files, journalctl">>))
              /\ ssh.outcome.kind = "return" => StrategySucceeded(ssh.last)
              /\ (~StrategySucceeded(ssh.last) /\ ~StrategySkipped(ssh.last))
                 => ssh.outcome = Raise(ssh.last.exc)

\* every strategy before journalctl was skipped and journalctl succeeded
C14_Witness ==
    /\ CoreLogsRun /\ ssh.pc = "done"
    /\ Len(ssh.tried) = 5
    /\ ssh.connects = 5
    /\ ssh.outcome.kind = "return"

TestConnectionEnded == ssh.pc = "done" /\ ssh.entry = "test_connection"

MaxItems == 4           \* items of a list handed to _truncate_response
MaxBytesTried == 12     \* largest max_bytes handed to _truncate_response

JsonList(items) == [t |-> "list", items |-> items]
JsonStr(chars) == [t |-> "str", items |-> chars]
JsonDict(members) == [t |-> "dict", items |-> members]
JsonNull == [t |-> "null", items |-> <<>>]

\* json.dumps(data) with its default separators
Dumps(data) ==
    CASE data.t = "list" -> <<"[">> \o Join(data.items, <<",", " ">>) \o <<"]">>
      [] data.t = "str" -> <<"\"">> \o data.items \o <<"\"">>
      [] data.t = "dict" -> <<"{">> \o Join(data.items, <<",", " ">>) \o <<"}">>
      [] OTHER -> <<"n", "u", "l", "l">>

NotTruncated(data) ==
    [truncated |-> FALSE, counted |-> FALSE, total_items |-> 0,
     returned_items |-> 0, max_bytes |-> 0, message |-> <<>>, data |-> data]

TruncatedList(data, items, max_bytes) ==
    [truncated |-> TRUE, counted |-> TRUE, total_items |-> Len(data.items),
     returned_items |-> items, max_bytes |-> max_bytes, message |-> <<>>,
     data |-> JsonList(SubSeq(data.items, 1, items))]

NotTruncatable(max_bytes) ==
    [truncated |-> TRUE, counted |-> FALSE, total_items |-> 0,
     returned_items |-> 0, max_bytes |-> max_bytes,
     message |-> <<"Response exceeds ", ToString(max_bytes),
                   " bytes and could not be truncated safely">>,
     data |-> JsonNull]

\* the while loop of _truncate_response, entered with `items` items left
RECURSIVE HalvingSearch(_, _, _)
HalvingSearch(data, items, max_bytes) ==
    IF items > 0
    THEN LET half == items \div 2
             truncated_data == JsonList(SubSeq(data.items, 1, half))
         IN  IF Len(Dumps(truncated_data)) <= max_bytes
             THEN TruncatedList(data, half, max_bytes)
             ELSE HalvingSearch(data, half, max_bytes)
    ELSE NotTruncatable(max_bytes)

\* a search that drops one item at a time
RECURSIVE LinearSearch(_, _, _)
LinearSearch(data, items, max_bytes) ==
    IF items > 0
    THEN LET fewer == items - 1
             truncated_data == JsonList(SubSeq(data.items, 1, fewer))
         IN  IF Len(Dumps(truncated_data)) <= max_bytes
             THEN TruncatedList(data, fewer, max_bytes)
             ELSE LinearSearch(data, fewer, max_bytes)
    ELSE NotTruncatable(max_bytes)

\* _truncate_response searching one item at a time
_truncate_response_linear(data, max_bytes) ==
    IF Len(Dumps(data)) <= max_bytes THEN NotTruncated(data)
    ELSE IF data.t = "list"
    THEN LinearSearch(data, Len(data.items), max_bytes)
    ELSE NotTruncatable(max_bytes)

\* _truncate_response handing back whatever is not a list
_truncate_response_lists_only(data, max_bytes) ==
    IF Len(Dumps(data)) <= max_bytes THEN NotTruncated(data)
    ELSE IF data.t = "list"
    THEN HalvingSearch(data, Len(data.items), max_bytes)
    ELSE NotTruncated(data)

\* _truncate_response truncating data of exactly max_bytes too
_truncate_response_strict(data, max_bytes) ==
    IF Len(Dumps(data)) < max_bytes THEN NotTruncated(data)
    ELSE IF data.t = "list"
    THEN HalvingSearch(data, Len(data.items), max_bytes)
    ELSE NotTruncatable(max_bytes)

_truncate_response(data, max_bytes) ==
    IF Len(Dumps(data)) <= max_bytes THEN NotTruncated(data)
    ELSE IF data.t = "list"
    THEN HalvingSearch(data, Len(data.items), max_bytes)
    ELSE NotTruncatable(max_bytes)

\* inputs: lists of up to MaxItems items of 1 or 3 characters, strings,
\* and dicts of up to two members "q": 7 as the API methods build them
ItemTexts == { <<"7">>, <<"1", "2", "3">> }
ListsOfLen(n) == [1..n -> ItemTexts]
MemberText == <<"\"", "q", "\"", ":", " ", "7">>
TruncateInputs ==
    { JsonList(l) : l \in UNION { ListsOfLen(n) : n \in 0..MaxItems } }
    \cup { JsonStr(c) : c \in { <<>>, <<"a", "b", "c">> } }
    \cup { JsonDict(m) : m \in { <<>>, <<MemberText>>, <<MemberText, MemberText>> } }

NoTruncation ==
    [called |-> FALSE, data |-> JsonNull, max_bytes |-> 0,
     result |-> NotTruncated(JsonNull),
     again_called |-> FALSE, again |-> NotTruncated(JsonNull)]

\* _truncate_response(data, max_bytes) is called
Truncate(data, max_bytes) ==
    /\ ~probe.called
    /\ probe' = [NoTruncation EXCEPT
                    !.called = TRUE, !.data = data, !.max_bytes = max_bytes,
                    !.result = _truncate_response(data, max_bytes)]
    /\ UNCHANGED <<env_value, config, inv, rest, ssh, ws>>

\* _truncate_response is called again on the data it returned
TruncateAgain ==
    /\ probe.called /\ ~probe.again_called
    /\ probe' = [probe EXCEPT
                    !.again_called = TRUE,
                    !.again = _truncate_response(probe.result.data,
                                                 probe.max_bytes)]
    /\ UNCHANGED <<env_value, config, inv, rest, ssh, ws>>

InitTruncate ==
    /\ env_value = None
    /\ config = AllowConfig(None)
    /\ probe = NoTruncation
    /\ inv = IdleInv
    /\ rest = RestInit
    /\ ssh = SshIdle(FALSE)
    /\ ws = WsIdle

NextTruncate ==
    \/ \E data \in TruncateInputs, max_bytes \in 0..MaxBytesTried :
            Truncate(data, max_bytes)
    \/ TruncateAgain

SpecTruncate == InitTruncate /\ [][NextTruncate]_vars

(***************************************************************************)
(* Properties of _truncate_response (checked under SpecTruncate).          *)
(***************************************************************************)
RECURSIVE SumOfLengths(_)
SumOfLengths(items) ==
    IF items = <<>> THEN 0 ELSE Len(Head(items)) + SumOfLengths(Tail(items))

\* the length of the JSON text of the first p items of a list
PrefixBytes(items, p) ==
    IF p = 0 THEN 2
    ELSE 2 + SumOfLengths(SubSeq(items, 1, p)) + 2 * (p - 1)

\* the halving sequence n // 2, n // 4, ..., 0
RECURSIVE Halvings(_)
Halvings(n) == IF n = 0 THEN <<>> ELSE <<n \div 2>> \o Halvings(n \div 2)

\* the list handed over does not fit and is searched for a prefix
ListSearched ==
    /\ probe.called /\ probe.data.t = "list"
    /\ PrefixBytes(probe.data.items, Len(probe.data.items)) > probe.max_bytes

\* the result names the first value of the halving sequence whose prefix
\* fits, and carries that prefix
FirstHalvingPrefixReturned ==
    LET items == probe.data.items
        h == Halvings(Len(items))
        r == probe.result
    IN  /\ r.truncated /\ r.counted
        /\ r.total_items = Len(items)
        /\ r.max_bytes = probe.max_bytes
        /\ r.data = JsonList(SubSeq(items, 1, r.returned_items))
        /\ PrefixBytes(items, r.returned_items) <= probe.max_bytes
        /\ \E k \in 1..Len(h) :
              /\ h[k] = r.returned_items
              /\ \A j \in 1..(k - 1) : PrefixBytes(items, h[j]) > probe.max_bytes

\* C16 as stated: for every list and every max_bytes the search returns the
\* first value p of the halving sequence whose prefix fits, with
\* returned_items = p, total_items = len(data) and the first p items as data.
C16_HalvingAlwaysReturnsPrefix ==
    ListSearched => FirstHalvingPrefixReturned

\* C16, amended: the same for every max_bytes of at least 2, the size of
\* the empty list's text; for a smaller max_bytes no prefix fits and the
\* result is the could-not-be-truncated payload with no data.
C16_HalvingReturnsPrefixWhenOneFits ==
    ListSearched =>
        IF probe.max_bytes >= 2
        THEN FirstHalvingPrefixReturned
        ELSE /\ probe.result.truncated /\ ~probe.result.counted
             /\ probe.result.data = JsonNull
             /\ probe.result.max_bytes = probe.max_bytes

\* a list of four items of which only the first fits: two halvings
C16_Witness ==
    /\ ListSearched
    /\ Len(probe.data.items) = 4
    /\ probe.result.counted
    /\ probe.result.returned_items = 1

\* C17: data whose JSON text is within max_bytes comes back untruncated
\* and identical; and truncating again, with the same max_bytes, the data
\* of a result that carries a list gives truncated = false and that same
\* list.
C17_TruncationIdempotent ==
    /\ ( /\ probe.called
         /\ Len(Dumps(probe.data)) <= probe.max_bytes )
       => /\ ~probe.result.truncated
          /\ probe.result.data = probe.data
    /\ ( /\ probe.called /\ probe.data.t = "list"
         /\ PrefixBytes(probe.data.items, Len(probe.data.items)) <= probe.max_bytes )
       => /\ ~probe.result.truncated
          /\ probe.result.data = probe.data
    /\ (probe.again_called /\ probe.result.data.t = "list")
       => /\ ~probe.again.truncated
          /\ probe.again.data = probe.result.data

\* a truncated, non-empty list was truncated again
C17_Witness ==
    /\ probe.again_called
    /\ probe.result.truncated /\ probe.result.counted
    /\ probe.result.returned_items >= 1

(***************************************************************************)
(* list_entities (ha_rest.py), as a function of the hub's states and the   *)
(* domain argument, once _request returned the states.                     *)
(***************************************************************************)
MAX_ENTITIES == 500

StartsWith(s, prefix) ==
    Len(prefix) <= Len(s) /\ SubSeq(s, 1, Len(prefix)) = prefix

\* state.get("entity_id", default); None stands for a state without the key
EntityIdOr(state, default) ==
    IF state.entity_id = None THEN default ELSE state.entity_id

\* the summary list_entities builds for one state
Summary(state) ==
    [entity_id |-> EntityIdOr(state, <<"u", "n", "k", "n", "o", "w", "n">>),
     state |-> state.state]

\* the filter comparing with the domain alone, not with "<domain>."
list_entities_prefix_without_dot(states, domain) ==
    LET filtered ==
            IF Truthy(domain)
            THEN SelectSeq(states,
                    LAMBDA s : StartsWith(EntityIdOr(s, <<>>), domain))
            ELSE states
        entities == [i \in 1..Min(Len(filtered), MAX_ENTITIES) |->
                        Summary(filtered[i])]
    IN  [total |-> Len(filtered), returned |-> Len(entities),
         domain_filter |-> domain, entities |-> entities,
         truncated |-> Len(filtered) > MAX_ENTITIES,
         message |-> IF Len(filtered) > MAX_ENTITIES
                     THEN <<"Limited to ", ToString(MAX_ENTITIES),
                            " entities. Use domain filter for more specific results.">>
                     ELSE <<>>]

list_entities(states, domain) ==
    LET filtered ==
            IF Truthy(domain)
            THEN SelectSeq(states,
                    LAMBDA s : StartsWith(EntityIdOr(s, <<>>), domain \o Dot))
            ELSE states
        entities == [i \in 1..Min(Len(filtered), MAX_ENTITIES) |->
                        Summary(filtered[i])]
    IN  [total |-> Len(filtered), returned |-> Len(entities),
         domain_filter |-> domain, entities |-> entities,
         truncated |-> Len(filtered) > MAX_ENTITIES,
         message |-> IF Len(filtered) > MAX_ENTITIES
                     THEN <<"Limited to ", ToString(MAX_ENTITIES),
                            " entities. Use domain filter for more specific results.">>
                     ELSE <<>>]

\* hub states: n states whose domains repeat a pattern; the i-th state has
\* entity_id "<domain>.e" and the state value i ("none": no entity_id key)
HubPatterns ==
    { <<"li">>, <<"li", "sw">>, <<"lis", "li", "sw", "none">> }

DomainText(d) ==
    CASE d = "li" -> <<"l", "i">>
      [] d = "lis" -> <<"l", "i", "s">>
      [] d = "sw" -> <<"s", "w">>
      [] OTHER -> None

HubStates(n, pattern) ==
    [i \in 1..n |->
        LET d == pattern[((i - 1) % Len(pattern)) + 1]
        IN  [entity_id |-> IF d = "none" THEN None
                           ELSE DomainText(d) \o <<".", "e">>,
             state |-> i]]

HubSizes ==
    { 0, 1, 5, MAX_ENTITIES - 1, MAX_ENTITIES, MAX_ENTITIES + 1,
      2 * MAX_ENTITIES + 2 }

DomainArguments ==
    { None, <<>>, <<"l", "i">>, <<"l", "i", "s">>, <<"s", "w">>, <<"z">> }

NoListing ==
    [called |-> FALSE, n |-> 0, pattern |-> <<"li">>, domain |-> None,
     result |-> list_entities(<<>>, None)]

\* list_entities(domain) runs on the states the hub returned
ListEntities(n, pattern, domain) ==
    /\ ~probe.called
    /\ probe' = [called |-> TRUE, n |-> n, pattern |-> pattern,
                 domain |-> domain,
                 result |-> list_entities(HubStates(n, pattern), domain)]
    /\ UNCHANGED <<env_value, config, inv, rest, ssh, ws>>

InitEntities ==
    /\ env_value = None
    /\ config = AllowConfig(None)
    /\ probe = NoListing
    /\ inv = IdleInv
    /\ rest = RestInit
    /\ ssh = SshIdle(FALSE)
    /\ ws = WsIdle

NextEntities ==
    \E n \in HubSizes, pattern \in HubPatterns, domain \in DomainArguments :
        ListEntities(n, pattern, domain)

SpecEntities == InitEntities /\ [][NextEntities]_vars

(***************************************************************************)
(* Properties of list_entities (checked under SpecEntities).               *)
(***************************************************************************)
\* the state at position i of the hub's list is one list_entities asks for
Wanted(i) ==
    LET s == HubStates(probe.n, probe.pattern)[i]
    IN  \/ probe.domain = None \/ probe.domain = <<>>
        \/ /\ s.entity_id # None
           /\ Len(s.entity_id) > Len(probe.domain)
           /\ \A k \in 1..Len(probe.domain) : s.entity_id[k] = probe.domain[k]
           /\ s.entity_id[Len(probe.domain) + 1] = "."

WantedUpTo(m) == { i \in 1..m : Wanted(i) }

\* C18: total is the number of hub states whose entity_id starts with
\* "<domain>." (all of them without a domain), returned = min(total,
\* MAX_ENTITIES), entities are the first `returned` such states in hub
\* order and no others, and truncated, with its message, is set exactly
\* when total > MAX_ENTITIES.
C18_ListEntitiesCounts ==
    probe.called =>
        LET r == probe.result
            states == HubStates(probe.n, probe.pattern)
            last == IF r.entities = <<>> THEN 0
                    ELSE r.entities[Len(r.entities)].state
        IN  /\ r.total = Cardinality(WantedUpTo(probe.n))
            /\ r.returned = Min(r.total, MAX_ENTITIES)
            /\ r.returned = Len(r.entities)
            /\ \A k \in 1..Len(r.entities) :
                  LET i == r.entities[k].state
                  IN  /\ i \in 1..probe.n /\ Wanted(i)
                      /\ r.entities[k].entity_id
                            = EntityIdOr(states[i], <<"u", "n", "k", "n", "o", "w", "n">>)
                      /\ k > 1 => r.entities[k - 1].state < i
            /\ Cardinality(WantedUpTo(last)) = r.returned
            /\ r.truncated <=> r.total > MAX_ENTITIES
            /\ r.truncated <=> r.message # <<>>
            /\ (probe.n = 5 /\ probe.pattern = <<"li", "sw">>
                    /\ probe.domain = <<"l", "i">>)
               => r.total = 3 /\ r.returned = 3

\* more states of the domain asked for than MAX_ENTITIES, among others
C18_Witness ==
    /\ probe.called
    /\ probe.domain = <<"l", "i">>
    /\ probe.pattern = <<"li", "sw">>
    /\ probe.result.total = MAX_ENTITIES + 1
    /\ probe.result.returned = MAX_ENTITIES
    /\ probe.result.truncated

(***************************************************************************)
(* MCPConfig.from_env (security.py) and the start of the server            *)
(* (server.py: run_server, create_server).                                 *)
(***************************************************************************)
LowerAlphabet ==
    <<"a", "b", "c", "d", "e", "f", "g", "h", "i", "j", "k", "l", "m",
      "n", "o", "p", "q", "r", "s", "t", "u", "v", "w", "x", "y", "z">>

UpperAlphabet ==
    <<"A", "B", "C", "D", "E", "F", "G", "H", "I", "J", "K", "L", "M",
      "N", "O", "P", "Q", "R", "S", "T", "U", "V", "W", "X", "Y", "Z">>

Digits == <<"0", "1", "2", "3", "4", "5", "6", "7", "8", "9">>

\* str.lower()
LowerChar(c) ==
    IF InSeq(c, UpperAlphabet)
    THEN LowerAlphabet[CHOOSE i \in 1..Len(UpperAlphabet) : UpperAlphabet[i] = c]
    ELSE c

Lower(s) == [i \in 1..Len(s) |-> LowerChar(s[i])]

\* str.rstrip("/")
RECURSIVE RStripSlash(_)
RStripSlash(s) ==
    IF s # <<>> /\ s[Len(s)] = "/"
    THEN RStripSlash(SubSeq(s, 1, Len(s) - 1))
    ELSE s

\* index of the first (last) character of s that is in chars; 0 when none
FirstIndex(s, chars) ==
    IF \E i \in 1..Len(s) : s[i] \in chars
    THEN CHOOSE i \in 1..Len(s) :
            s[i] \in chars /\ \A j \in 1..(i - 1) : s[j] \notin chars
    ELSE 0

LastIndex(s, chars) ==
    IF \E i \in 1..Len(s) : s[i] \in chars
    THEN CHOOSE i \in 1..Len(s) :
            s[i] \in chars /\ \A j \in (i + 1)..Len(s) : s[j] \notin chars
    ELSE 0

\* urllib.parse.urlparse on a text without brackets: scheme, netloc, hostname
urlparse(url) ==
    LET colon == FirstIndex(url, {":"})
        letters == { LowerAlphabet[i] : i \in 1..26 } \cup
                   { UpperAlphabet[i] : i \in 1..26 }
        scheme_chars == letters \cup { Digits[i] : i \in 1..10 }
                            \cup {"+", "-", "."}
        has_scheme == /\ colon > 1
                      /\ url[1] \in letters
                      /\ \A k \in 1..(colon - 1) : url[k] \in scheme_chars
        remainder == IF has_scheme THEN SubSeq(url, colon + 1, Len(url)) ELSE url
        after == SubSeq(remainder, 3, Len(remainder))
        delim == FirstIndex(after, {"/", "?", "#"})
        netloc == IF Len(remainder) >= 2 /\ remainder[1] = "/" /\ remainder[2] = "/"
                  THEN (IF delim = 0 THEN after
                        ELSE SubSeq(after, 1, delim - 1))
                  ELSE <<>>
        hostinfo == SubSeq(netloc, LastIndex(netloc, {"@"}) + 1, Len(netloc))
        port_at == FirstIndex(hostinfo, {":"})
        host == IF port_at = 0 THEN hostinfo
                ELSE SubSeq(hostinfo, 1, port_at - 1)
    IN  [scheme |-> IF has_scheme THEN Lower(SubSeq(url, 1, colon - 1))
                    ELSE <<>>,
         netloc |-> netloc,
         hostname |-> IF host = <<>> THEN None ELSE Lower(host)]

\* digits, single underscores allowed between them (int() and float())
DigitRun(s) ==
    /\ s # <<>>
    /\ \A i \in 1..Len(s) : InSeq(s[i], Digits) \/ s[i] = "_"
    /\ s[1] # "_" /\ s[Len(s)] # "_"
    /\ \A i \in 1..(Len(s) - 1) : ~(s[i] = "_" /\ s[i + 1] = "_")

Unsigned(s) == IF s # <<>> /\ s[1] \in {"+", "-"} THEN Tail(s) ELSE s

\* int(text) succeeds
IsInt(text) == DigitRun(Unsigned(Strip(text)))

RECURSIVE DigitsValue(_, _)
DigitsValue(s, acc) ==
    IF s = <<>> THEN acc
    ELSE IF Head(s) = "_" THEN DigitsValue(Tail(s), acc)
    ELSE DigitsValue(Tail(s),
            10 * acc + (CHOOSE d \in 0..9 : Digits[d + 1] = Head(s)))

\* int(text), for a text int() accepts
IntValue(text) ==
    LET t == Strip(text)
        v == DigitsValue(Unsigned(t), 0)
    IN  IF t[1] = "-" THEN 0 - v ELSE v

\* float(text) succeeds
IsFloat(text) ==
    LET body == Unsigned(Strip(text))
        e == FirstIndex(body, {"e", "E"})
        mantissa == IF e = 0 THEN body ELSE SubSeq(body, 1, e - 1)
        exponent == SubSeq(body, e + 1, Len(body))
        point == FirstIndex(mantissa, {"."})
        whole == IF point = 0 THEN mantissa
                 ELSE SubSeq(mantissa, 1, point - 1)
        fraction == IF point = 0 THEN <<>>
                    ELSE SubSeq(mantissa, point + 1, Len(mantissa))
    IN  \/ Lower(body) \in { <<"i", "n", "f">>, <<"n", "a", "n">>,
                             <<"i", "n", "f", "i", "n", "i", "t", "y">> }
        \/ /\ whole # <<>> \/ fraction # <<>>
           /\ whole = <<>> \/ DigitRun(whole)
           /\ fraction = <<>> \/ DigitRun(fraction)
           /\ e = 0 \/ DigitRun(Unsigned(exponent))

\* os.environ.get(name, default); None stands for an unset variable
EnvGet(value, default) == IF value = None THEN default ELSE value

\* value or None
OrNone(text) == IF text = <<>> THEN None ELSE text

ValueError(msg) == Raise(Exc("ValueError", msg))

\* the netloc test of from_env replaced by a test of the hostname
from_env_hostname_required(env) ==
    LET stripped_url == Strip(EnvGet(env.HA_URL, <<>>))
        ha_token == Strip(EnvGet(env.HA_TOKEN, <<>>))
        ha_url == RStripSlash(stripped_url)
        parsed == urlparse(ha_url)
        mode_str == Lower(Strip(EnvGet(env.HA_MCP_MODE,
                        <<"r", "e", "a", "d", "o", "n", "l", "y">>)))
        ssh_enable == Lower(Strip(EnvGet(env.HA_SSH_ENABLE,
                        <<"f", "a", "l", "s", "e">>))) = <<"t", "r", "u", "e">>
        env_host == OrNone(Strip(EnvGet(env.HA_SSH_HOST, <<>>)))
        ssh_user == OrNone(Strip(EnvGet(env.HA_SSH_USER, <<>>)))
        ssh_port_str == Strip(EnvGet(env.HA_SSH_PORT, <<"2", "2">>))
        timeout_str == Strip(EnvGet(env.HA_REQUEST_TIMEOUT_SECONDS, <<"1", "5">>))
    IN  IF stripped_url = <<>>
        THEN ValueError(<<"HA_URL environment variable is required">>)
        ELSE IF ha_token = <<>>
        THEN ValueError(<<"HA_TOKEN environment variable is required">>)
        ELSE IF parsed.scheme \notin { <<"h", "t", "t", "p">>,
                                       <<"h", "t", "t", "p", "s">> }
        THEN ValueError(<<"HA_URL must use http or https scheme, got: ">>
                            \o parsed.scheme)
        ELSE IF parsed.hostname = None
        THEN ValueError(<<"HA_URL is missing hostname: ">> \o ha_url)
        ELSE IF mode_str \notin { <<"r", "e", "a", "d", "o", "n", "l", "y">>,
                                  <<"r", "e", "a", "d", "w", "r", "i", "t", "e">> }
        THEN ValueError(<<"HA_MCP_MODE must be 'readonly' or 'readwrite', got: ">>
                            \o mode_str)
        ELSE IF ~IsInt(ssh_port_str)
        THEN ValueError(<<"HA_SSH_PORT must be an integer, got: ">>
                            \o ssh_port_str)
        ELSE IF ssh_enable /\ ssh_user = None
        THEN ValueError(<<"HA_SSH_USER is required when HA_SSH_ENABLE=true">>)
        ELSE IF ~IsFloat(timeout_str)
        THEN ValueError(<<"HA_REQUEST_TIMEOUT_SECONDS must be a number, got: ">>
                            \o timeout_str)
        ELSE Ret([ha_url |-> ha_url,
                  ha_token |-> ha_token,
                  mode |-> IF mode_str = <<"r", "e", "a", "d", "w", "r", "i", "t", "e">>
                           THEN "readwrite" ELSE "readonly",
                  allowed_services |->
                      ServiceAllowlist_from_env(env.HA_ALLOWED_SERVICES),
                  verify_tls |->
                      Lower(Strip(EnvGet(env.HA_VERIFY_TLS, <<"t", "r", "u", "e">>)))
                          # <<"f", "a", "l", "s", "e">>,
                  ssh_enable |-> ssh_enable,
                  ssh_host |-> IF ssh_enable /\ env_host = None
                               THEN parsed.hostname ELSE env_host,
                  ssh_user |-> ssh_user,
                  ssh_port |-> IntValue(ssh_port_str),
                  ssh_key_path |-> OrNone(Strip(EnvGet(env.HA_SSH_KEY_PATH, <<>>))),
                  ssh_password |-> OrNone(Strip(EnvGet(env.HA_SSH_PASSWORD, <<>>))),
                  \* float(timeout_str), kept as the text it was parsed from
                  request_timeout |-> timeout_str])

from_env(env) ==
    LET stripped_url == Strip(EnvGet(env.HA_URL, <<>>))
        ha_token == Strip(EnvGet(env.HA_TOKEN, <<>>))
        ha_url == RStripSlash(stripped_url)
        parsed == urlparse(ha_url)
        mode_str == Lower(Strip(EnvGet(env.HA_MCP_MODE,
                        <<"r", "e", "a", "d", "o", "n", "l", "y">>)))
        ssh_enable == Lower(Strip(EnvGet(env.HA_SSH_ENABLE,
                        <<"f", "a", "l", "s", "e">>))) = <<"t", "r", "u", "e">>
        env_host == OrNone(Strip(EnvGet(env.HA_SSH_HOST, <<>>)))
        ssh_user == OrNone(Strip(EnvGet(env.HA_SSH_USER, <<>>)))
        ssh_port_str == Strip(EnvGet(env.HA_SSH_PORT, <<"2", "2">>))
        timeout_str == Strip(EnvGet(env.HA_REQUEST_TIMEOUT_SECONDS, <<"1", "5">>))
    IN  IF stripped_url = <<>>
        THEN ValueError(<<"HA_URL environment variable is required">>)
        ELSE IF ha_token = <<>>
        THEN ValueError(<<"HA_TOKEN environment variable is required">>)
        ELSE IF parsed.scheme \notin { <<"h", "t", "t", "p">>,
                                       <<"h", "t", "t", "p", "s">> }
        THEN ValueError(<<"HA_URL must use http or https scheme, got: ">>
                            \o parsed.scheme)
        ELSE IF parsed.netloc = <<>>
        THEN ValueError(<<"HA_URL is missing hostname: ">> \o ha_url)
        ELSE IF mode_str \notin { <<"r", "e", "a", "d", "o", "n", "l", "y">>,
                                  <<"r", "e", "a", "d", "w", "r", "i", "t", "e">> }
        THEN ValueError(<<"HA_MCP_MODE must be 'readonly' or 'readwrite', got: ">>
                            \o mode_str)
        ELSE IF ~IsInt(ssh_port_str)
        THEN ValueError(<<"HA_SSH_PORT must be an integer, got: ">>
                            \o ssh_port_str)
        ELSE IF ssh_enable /\ ssh_user = None
        THEN ValueError(<<"HA_SSH_USER is required when HA_SSH_ENABLE=true">>)
        ELSE IF ~IsFloat(timeout_str)
        THEN ValueError(<<"HA_REQUEST_TIMEOUT_SECONDS must be a number, got: ">>
                            \o timeout_str)
        ELSE Ret([ha_url |-> ha_url,
                  ha_token |-> ha_token,
                  mode |-> IF mode_str = <<"r", "e", "a", "d", "w", "r", "i", "t", "e">>
                           THEN "readwrite" ELSE "readonly",
                  allowed_services |->
                      ServiceAllowlist_from_env(env.HA_ALLOWED_SERVICES),
                  verify_tls |->
                      Lower(Strip(EnvGet(env.HA_VERIFY_TLS, <<"t", "r", "u", "e">>)))
                          # <<"f", "a", "l", "s", "e">>,
                  ssh_enable |-> ssh_enable,
                  ssh_host |-> IF ssh_enable /\ env_host = None
                               THEN parsed.hostname ELSE env_host,
                  ssh_user |-> ssh_user,
                  ssh_port |-> IntValue(ssh_port_str),
                  ssh_key_path |-> OrNone(Strip(EnvGet(env.HA_SSH_KEY_PATH, <<>>))),
                  ssh_password |-> OrNone(Strip(EnvGet(env.HA_SSH_PASSWORD, <<>>))),
                  \* float(timeout_str), kept as the text it was parsed from
                  request_timeout |-> timeout_str])

\* environments the server is started in
Http == <<"h", "t", "t", "p">>
Slashes == <<":", "/", "/">>

UrlInputs ==
    { None, <<>>, <<" ">>, <<"/">>,
      Http \o Slashes \o <<"h">>,
      Http \o Slashes \o <<"h", "/">>,
      <<" ">> \o Http \o <<"s">> \o Slashes \o <<"h", ":", "1", "/", "/">>,
      <<"H", "T", "T", "P">> \o Slashes \o <<"H", "/", "p">>,
      <<"f", "t", "p">> \o Slashes \o <<"h">>,
      <<"h">>,
      Http \o Slashes,
      Http \o <<":", "h">>,
      Http \o Slashes \o <<":", "1">>,
      Http \o Slashes \o <<"u", "@">> }

TokenInputs == { None, <<" ">>, <<"t">> }

ModeInputs ==
    { None, <<>>, <<"R", "e", "a", "d", "W", "r", "i", "t", "e", " ">>,
      <<"a", "d", "m", "i", "n">> }

SshEnableInputs == { None, <<"T", "r", "u", "e">>, <<"y", "e", "s">> }

SshHostInputs == { None, <<"s">> }

SshUserInputs == { None, <<" ">>, <<"u">> }

SshPortInputs == { None, <<" ", "2", "_", "2">>, <<"x">>, <<"2", ".", "5">> }

TimeoutInputs ==
    { None, <<"1", ".", "5">>, <<"x">>, <<"1", "e", "3">>, <<"0">>, <<"-", "1">> }

StartupEnvs ==
    [HA_URL : UrlInputs, HA_TOKEN : TokenInputs, HA_MCP_MODE : ModeInputs,
     HA_ALLOWED_SERVICES : {None}, HA_VERIFY_TLS : {None},
     HA_SSH_ENABLE : SshEnableInputs, HA_SSH_HOST : SshHostInputs,
     HA_SSH_USER : SshUserInputs, HA_SSH_PORT : SshPortInputs,
     HA_SSH_KEY_PATH : {None}, HA_SSH_PASSWORD : {None},
     HA_REQUEST_TIMEOUT_SECONDS : TimeoutInputs]

NotLoaded == [kind |-> "none", value |-> NoValue, exc |-> NoExc]

\* pc: "start", "configured" (run_server holds a config), "serving"
\* (clients constructed), "exited" (sys.exit(1)), "raised" (create_server
\* let the ValueError through)
Startup(env) ==
    [pc |-> "start", env |-> env, loads |-> 0, loaded |-> NotLoaded,
     clients |-> FALSE, exit_code |-> 0]

\* run_server: MCPConfig.from_env(), sys.exit(1) on ValueError
RunServer ==
    /\ probe.pc = "start"
    /\ LET r == from_env(probe.env)
       IN  probe' = [probe EXCEPT
                !.loads = @ + 1, !.loaded = r,
                !.pc = IF r.kind = "raise" THEN "exited" ELSE "configured",
                !.exit_code = IF r.kind = "raise" THEN 1 ELSE 0]
    /\ UNCHANGED <<env_value, config, inv, rest, ssh, ws>>

\* create_server(config): the three clients are constructed
CreateServer ==
    /\ probe.pc = "configured"
    /\ probe' = [probe EXCEPT !.clients = TRUE, !.pc = "serving"]
    /\ UNCHANGED <<env_value, config, inv, rest, ssh, ws>>

\* create_server() without a config: from_env, then the clients
CreateServerFromEnv ==
    /\ probe.pc = "start"
    /\ LET r == from_env(probe.env)
       IN  probe' = [probe EXCEPT
                !.loads = @ + 1, !.loaded = r,
                !.clients = (r.kind = "return"),
                !.pc = IF r.kind = "raise" THEN "raised" ELSE "serving"]
    /\ UNCHANGED <<env_value, config, inv, rest, ssh, ws>>

InitStartup ==
    /\ env_value = None
    /\ config = AllowConfig(None)
    /\ probe \in { Startup(env) : env \in StartupEnvs }
    /\ inv = IdleInv
    /\ rest = RestInit
    /\ ssh = SshIdle(FALSE)
    /\ ws = WsIdle

NextStartup == RunServer \/ CreateServer \/ CreateServerFromEnv

SpecStartup == InitStartup /\ [][NextStartup]_vars

(***************************************************************************)
(* Properties of the start-up (checked under SpecStartup).                 *)
(***************************************************************************)
EnvText(value) == IF value = None THEN <<>> ELSE Strip(value)

GivenUrl == urlparse(RStripSlash(EnvText(probe.env.HA_URL)))

SshAsked == Lower(EnvText(probe.env.HA_SSH_ENABLE)) = <<"t", "r", "u", "e">>

\* the cases in which loading the configuration has to fail
UrlMissing == EnvText(probe.env.HA_URL) = <<>>
UrlUnsupported ==
    /\ ~UrlMissing
    /\ \/ GivenUrl.scheme \notin { Http, Http \o <<"s">> }
       \/ GivenUrl.hostname = None
TokenMissing == EnvText(probe.env.HA_TOKEN) = <<>>
ModeUnknown ==
    /\ probe.env.HA_MCP_MODE # None
    /\ Lower(EnvText(probe.env.HA_MCP_MODE))
          \notin { <<"r", "e", "a", "d", "o", "n", "l", "y">>,
                   <<"r", "e", "a", "d", "w", "r", "i", "t", "e">> }
SshUserMissing == SshAsked /\ EnvText(probe.env.HA_SSH_USER) = <<>>
PortUnparseable ==
    probe.env.HA_SSH_PORT # None /\ ~IsInt(probe.env.HA_SSH_PORT)
TimeoutUnparseable ==
    /\ probe.env.HA_REQUEST_TIMEOUT_SECONDS # None
    /\ ~IsFloat(probe.env.HA_REQUEST_TIMEOUT_SECONDS)

MustFail ==
    \/ UrlMissing \/ UrlUnsupported \/ TokenMissing \/ ModeUnknown
    \/ SshUserMissing \/ PortUnparseable \/ TimeoutUnparseable

NoNetworkActivity ==
    /\ rest.attempts = 0 /\ rest.session = RestInit.session
    /\ ssh.connects = 0 /\ ws.connects = 0

\* C19: from_env fails with a configuration error, before any client is
\* constructed and before any network activity, when HA_URL is missing or
\* empty, has a scheme other than http/https or no host, HA_TOKEN is
\* missing or empty, HA_MCP_MODE is unknown, SSH is enabled without a
\* user, or the port or the timeout is not a number; otherwise it returns
\* a configuration whose URL has no trailing slash and whose ssh_host,
\* when SSH is enabled and no host is given, is the URL's hostname.  No
\* failure is retried.
C19_FromEnvFailsOrNormalises ==
    probe.loads > 0 =>
        /\ probe.loads = 1
        /\ MustFail =>
              /\ probe.loaded.kind = "raise"
              /\ probe.loaded.exc.type = "ValueError"
              /\ ~probe.clients
              /\ probe.pc \in {"exited", "raised"}
              /\ NoNetworkActivity
        /\ ~MustFail =>
              /\ probe.loaded.kind = "return"
              /\ LET c == probe.loaded.value
                 IN  /\ c.ha_url # <<>> /\ c.ha_url[Len(c.ha_url)] # "/"
                     /\ (c.ssh_enable /\ EnvText(probe.env.HA_SSH_HOST) = <<>>)
                           => c.ssh_host = GivenUrl.hostname

(***************************************************************************)
(* get_error_log (ha_rest.py), as a function of what its _request          *)
(* returned or raised.                                                     *)
(***************************************************************************)
MAX_RESPONSE_SIZE == 100000

ErrorLogPath == <<"/api/error_log">>

\* str(log_text) for a body that _request parsed as JSON: Python's
\* rendering of the parsed value, a text of its own
StrOf(value) ==
    IF value.type = "str" THEN value.text
    ELSE <<"<str of ", value.type, ">">> \o value.text

GuidancePayload ==
    [error |-> FALSE,
     message |-> <<"Error log endpoint not available. This may be due to: ",
                   "1) Home Assistant version differences, ",
                   "2) Logging not configured, or ",
                   "3) Insufficient API token permissions. ",
                   "Try checking logs via SSH with ha_get_full_logs if SSH is enabled.">>,
     truncated |-> FALSE, total_bytes |-> 0, max_bytes |-> 0, log |-> None]

ErrorLogPayload(log_text) ==
    IF Len(log_text) > MAX_RESPONSE_SIZE
    THEN [error |-> FALSE, message |-> <<>>,
          truncated |-> TRUE, total_bytes |-> Len(log_text),
          max_bytes |-> MAX_RESPONSE_SIZE,
          log |-> SubSeq(log_text, 1, MAX_RESPONSE_SIZE)]
    ELSE [error |-> FALSE, message |-> <<>>,
          truncated |-> FALSE, total_bytes |-> Len(log_text),
          max_bytes |-> 0, log |-> log_text]

\* the except clause naming HomeAssistantAPIError instead of its subclass
get_error_log_catches_api_error(r) ==
    IF r.kind = "raise"
    THEN IF IsInstance(r.exc.type, "HomeAssistantAPIError")
         THEN Ret(GuidancePayload)
         ELSE r
    ELSE Ret(ErrorLogPayload(StrOf(r.value)))

get_error_log(r) ==
    IF r.kind = "raise"
    THEN IF IsInstance(r.exc.type, "HomeAssistantNotFoundError")
         THEN Ret(GuidancePayload)
         ELSE r
    ELSE Ret(ErrorLogPayload(StrOf(r.value)))

\* log texts of n characters repeating a pattern
LogPatterns ==
    { <<"a">>, <<"a", "b">>, <<"\n">>, <<"E", "R", "R">>,
      <<"w", "x", "y", "z">> }

LogText(n, pattern) ==
    [i \in 1..n |-> pattern[((i - 1) % Len(pattern)) + 1]]

ShortLogSizes == 0..20

LongLogSizes ==
    { MAX_RESPONSE_SIZE - 1, MAX_RESPONSE_SIZE, MAX_RESPONSE_SIZE + 1,
      2 * MAX_RESPONSE_SIZE }

\* what _request("GET", "/api/error_log") can end with
ErrorLogRequestResults ==
    { RequestOnce(o, ErrorLogPath) : o \in HubOutcomes }
    \cup { Ret([type |-> "str", text |-> LogText(n, p)]) :
             n \in ShortLogSizes, p \in LogPatterns }
    \cup { Ret([type |-> "str", text |-> LogText(n, <<"a", "b">>)]) :
             n \in LongLogSizes }

NoErrorLog ==
    [called |-> FALSE, request_result |-> Ret(NoValue),
     result |-> Ret(GuidancePayload)]

\* get_error_log() runs; its _request ended with r
GetErrorLog(r) ==
    /\ ~probe.called
    /\ probe' = [called |-> TRUE, request_result |-> r,
                 result |-> get_error_log(r)]
    /\ UNCHANGED <<env_value, config, inv, rest, ssh, ws>>

InitErrorLog ==
    /\ env_value = None
    /\ config = AllowConfig(None)
    /\ probe = NoErrorLog
    /\ inv = IdleInv
    /\ rest = RestInit
    /\ ssh = SshIdle(FALSE)
    /\ ws = WsIdle

NextErrorLog == \E r \in ErrorLogRequestResults : GetErrorLog(r)

SpecErrorLog == InitErrorLog /\ [][NextErrorLog]_vars

(***************************************************************************)
(* Properties of get_error_log (checked under SpecErrorLog).               *)
(***************************************************************************)
EndpointMissing ==
    /\ probe.request_result.kind = "raise"
    /\ probe.request_result.exc.status_code = 404

\* C20: a 404 of the error-log endpoint is never raised: the operation
\* returns the guidance payload with log = null; every other error of the
\* request propagates unchanged.  On success log is the prefix of the full
\* text of at most MAX_RESPONSE_SIZE characters, truncated is set exactly
\* when the full text is longer than that, and total_bytes is the full
\* length.
C20_ErrorLogNotFoundIsGuidance ==
    probe.called =>
        LET r == probe.request_result
            out == probe.result
        IN  /\ EndpointMissing =>
                  /\ out.kind = "return"
                  /\ out.value.log = None
                  /\ out.value.error = FALSE
                  /\ out.value.message # <<>>
            /\ (r.kind = "raise" /\ ~EndpointMissing) =>
                  /\ out.kind = "raise"
                  /\ out.exc = r.exc
            /\ r.kind = "return" =>
                  /\ out.kind = "return"
                  /\ LET full == StrOf(r.value)
                         log == out.value.log
                     IN  /\ log # None
                         /\ Len(log) = Min(Len(full), MAX_RESPONSE_SIZE)
                         /\ \A i \in 1..Len(log) : log[i] = full[i]
                         /\ out.value.truncated
                                <=> Len(full) > MAX_RESPONSE_SIZE
                         /\ out.value.total_bytes = Len(full)

\* the endpoint answered 404 and get_error_log returned its guidance
C20_Witness ==
    /\ probe.called
    /\ probe.request_result.kind = "raise"
    /\ probe.request_result.exc.type = "HomeAssistantNotFoundError"
    /\ probe.result.kind = "return"
    /\ probe.result.value.log = None

(***************************************************************************)
(* get_lovelace_config (ha_ws.py), as a function of the answer to its      *)
(* lovelace/config command.                                                *)
(***************************************************************************)
MAX_LOVELACE_SIZE == 500000

\* needle in haystack
Contains(haystack, needle) ==
    \E i \in 0..(Len(haystack) - Len(needle)) :
        SubSeq(haystack, i + 1, i + Len(needle)) = needle

\* _send_command on the frame answering the command: result, or the error
CommandFailedText(message) ==
    <<"C", "o", "m", "m", "a", "n", "d", " ", "f", "a", "i", "l", "e", "d", ":", " ">> \o (IF message = None THEN <<"U", "n", "k", "n", "o", "w", "n", " ", "e", "r", "r", "o", "r">> ELSE message)

NoConfigPayload ==
    [kind |-> "no_config", truncated |-> FALSE, config |-> None,
     message |-> <<"No UI-managed Lovelace configuration found. ",
                   "This typically means: ",
                   "1) You're using YAML mode (dashboards defined in configuration.yaml), ",
                   "2) Using auto-generated dashboards, or ",
                   "3) No custom dashboards have been created via the UI. ",
                   "YAML mode dashboards are stored in files, not the database.">>,
     total_bytes |-> 0, max_bytes |-> 0, title |-> None,
     views_count |-> 0, views |-> <<>>]

\* view.get(key): None for an absent key; len(view.get("cards", []))
ViewSummary(view) ==
    [title |-> view.title, path |-> view.path, icon |-> view.icon,
     cards_count |-> IF view.cards = None THEN 0 ELSE Len(view.cards)]

LovelacePayload(lovelace) ==
    IF lovelace.dumps_len > MAX_LOVELACE_SIZE
    THEN [kind |-> "summary", truncated |-> TRUE, config |-> None,
          message |-> <<"Full config too large, returning summary">>,
          total_bytes |-> lovelace.dumps_len, max_bytes |-> MAX_LOVELACE_SIZE,
          title |-> lovelace.title,
          views_count |-> Len(lovelace.views),
          views |-> [i \in 1..Len(lovelace.views) |-> ViewSummary(lovelace.views[i])]]
    ELSE [kind |-> "config", truncated |-> FALSE, config |-> lovelace,
          message |-> <<>>, total_bytes |-> 0, max_bytes |-> 0,
          title |-> None, views_count |-> 0, views |-> <<>>]

\* the error message compared as it is, without lower()
get_lovelace_config_case_sensitive(answer) ==
    IF answer.success THEN Ret(LovelacePayload(answer.result))
    ELSE LET text == CommandFailedText(answer.message)
         IN  IF \/ Contains(text, <<"n", "o", " ", "c", "o", "n", "f", "i", "g", " ", "f", "o", "u", "n", "d">>)
                \/ Contains(text, <<"c", "o", "n", "f", "i", "g", " ", "n", "o", "t", " ", "f", "o", "u", "n", "d">>)
             THEN Ret(NoConfigPayload)
             ELSE Raise(Exc("HomeAssistantWSError", text))

get_lovelace_config(answer) ==
    IF answer.success THEN Ret(LovelacePayload(answer.result))
    ELSE LET text == CommandFailedText(answer.message)
             error_msg == Lower(text)
         IN  IF \/ Contains(error_msg, <<"n", "o", " ", "c", "o", "n", "f", "i", "g", " ", "f", "o", "u", "n", "d">>)
                \/ Contains(error_msg, <<"c", "o", "n", "f", "i", "g", " ", "n", "o", "t", " ", "f", "o", "u", "n", "d">>)
             THEN Ret(NoConfigPayload)
             ELSE Raise(Exc("HomeAssistantWSError", text))

\* the hub's answers: a dashboard configuration with the length of its
\* json.dumps, or an error message
ViewInputs ==
    { [title |-> None, path |-> None, icon |-> None, cards |-> None],
      [title |-> <<"v">>, path |-> <<"p">>, icon |-> None, cards |-> <<>>],
      [title |-> <<"w">>, path |-> None, icon |-> <<"i">>, cards |-> <<"card", "card">>] }

ViewLists == { <<>> } \cup [1..1 -> ViewInputs] \cup [1..2 -> ViewInputs]

DumpsLengths ==
    { 2, MAX_LOVELACE_SIZE - 1, MAX_LOVELACE_SIZE, MAX_LOVELACE_SIZE + 1,
      2 * MAX_LOVELACE_SIZE }

ConfigInputs ==
    [title : {None, <<"t">>}, views : ViewLists, dumps_len : DumpsLengths]

FailureMessages ==
    { None, <<"C", "o", "n", "f", "i", "g", " ", "n", "o", "t", " ", "f", "o", "u", "n", "d">>, <<"N", "o", " ", "c", "o", "n", "f", "i", "g", " ", "f", "o", "u", "n", "d", ".">>,
      <<"E", "r", "r", "o", "r", ":", " ", "N", "O", " ", "C", "O", "N", "F", "I", "G", " ", "F", "O", "U", "N", "D", " ", "f", "o", "r", " ", "x">>, <<"c", "o", "n", "f", "i", "g", " ", " ", "n", "o", "t", " ", "f", "o", "u", "n", "d">>,
      <<"U", "n", "k", "n", "o", "w", "n", " ", "c", "o", "m", "m", "a", "n", "d">>, <<"N", "o", "t", " ", "f", "o", "u", "n", "d">>, <<"n", "o", " ", "c", "o", "n", "f", "i", "g">> }

NoConfig == [title |-> None, views |-> <<>>, dumps_len |-> 0]

LovelaceAnswers ==
    { [success |-> TRUE, result |-> c, message |-> None] : c \in ConfigInputs }
    \cup { [success |-> FALSE, result |-> NoConfig, message |-> m] :
             m \in FailureMessages }

NoLovelace ==
    [called |-> FALSE,
     answer |-> [success |-> FALSE, result |-> NoConfig, message |-> None],
     result |-> Ret(NoConfigPayload)]

\* get_lovelace_config() runs; the hub answered its command
GetLovelaceConfig(answer) ==
    /\ ~probe.called
    /\ probe' = [called |-> TRUE, answer |-> answer,
                 result |-> get_lovelace_config(answer)]
    /\ UNCHANGED <<env_value, config, inv, rest, ssh, ws>>

InitLovelace ==
    /\ env_value = None
    /\ config = AllowConfig(None)
    /\ probe = NoLovelace
    /\ inv = IdleInv
    /\ rest = RestInit
    /\ ssh = SshIdle(FALSE)
    /\ ws = WsIdle

NextLovelace == \E answer \in LovelaceAnswers : GetLovelaceConfig(answer)

SpecLovelace == InitLovelace /\ [][NextLovelace]_vars

(***************************************************************************)
(* Properties of get_lovelace_config (checked under SpecLovelace).         *)
(***************************************************************************)
\* the hub's message, whatever its case, says that no config was found
SaysNoConfig(message) ==
    /\ message # None
    /\ \E i \in 1..Len(message), needle \in { <<"n", "o", " ", "c", "o", "n", "f", "i", "g", " ", "f", "o", "u", "n", "d">>, <<"c", "o", "n", "f", "i", "g", " ", "n", "o", "t", " ", "f", "o", "u", "n", "d">> } :
          /\ i + Len(needle) - 1 <= Len(message)
          /\ \A k \in 1..Len(needle) : LowerChar(message[i + k - 1]) = needle[k]

\* C21: a failed lovelace/config command whose message contains 'no config
\* found' or 'config not found' gives a payload with config = null, any
\* other failed command is raised; a configuration whose serialization
\* exceeds MAX_LOVELACE_SIZE gives the views-only summary (title, path,
\* icon, cards_count per view, views_count) instead of the configuration;
\* otherwise the result is {truncated: false, config}.
C21_LovelaceRecoverableAbsorbed ==
    probe.called =>
        LET a == probe.answer
            out == probe.result
        IN  /\ (~a.success /\ SaysNoConfig(a.message)) =>
                  /\ out.kind = "return"
                  /\ out.value.kind = "no_config"
                  /\ out.value.config = None
                  /\ out.value.message # <<>>
            /\ (~a.success /\ ~SaysNoConfig(a.message)) =>
                  /\ out.kind = "raise"
                  /\ out.exc.type = "HomeAssistantWSError"
            /\ (a.success /\ a.result.dumps_len > MAX_LOVELACE_SIZE) =>
                  /\ out.kind = "return"
                  /\ out.value.kind = "summary"
                  /\ out.value.truncated
                  /\ out.value.config = None
                  /\ out.value.title = a.result.title
                  /\ out.value.total_bytes = a.result.dumps_len
                  /\ out.value.views_count = Len(a.result.views)
                  /\ Len(out.value.views) = Len(a.result.views)
                  /\ \A i \in 1..Len(a.result.views) :
                        LET v == a.result.views[i]
                            s == out.value.views[i]
                        IN  /\ s.title = v.title /\ s.path = v.path
                            /\ s.icon = v.icon
                            /\ s.cards_count
                                  = (IF v.cards = None THEN 0 ELSE Len(v.cards))
            /\ (a.success /\ a.result.dumps_len <= MAX_LOVELACE_SIZE) =>
                  /\ out.kind = "return"
                  /\ out.value.kind = "config"
                  /\ ~out.value.truncated
                  /\ out.value.config = a.result

\* the hub said "Config not found" and the operation returned its payload
C21_Witness ==
    /\ probe.called
    /\ ~probe.answer.success
    /\ probe.answer.message = <<"C", "o", "n", "f", "i", "g", " ", "n", "o", "t", " ", "f", "o", "u", "n", "d">>
    /\ probe.result.kind = "return"
    /\ probe.result.value.config = None

(***************************************************************************)
(* One HomeAssistantWebSocketClient used by several invocations at once:   *)
(* the message-id counter (ha_ws.py: _next_message_id, _send_command).     *)
(***************************************************************************)
MaxInvocations == 3     \* invocations sharing the client
MaxCommands == 4        \* commands the client sends in a run of the model

Invocations == 1..MaxInvocations

\* a counter that restarts with every connection
_next_message_id_per_connection(self_message_id) == 1

\* self._message_id += 1; return self._message_id
_next_message_id(self_message_id) == self_message_id + 1

\* pc of an invocation: "idle", "authenticated" (its own connection is open
\* and _authenticate returned), "waiting" (its command is sent, the loop
\* of _send_command receives)
IdleInvocation == [pc |-> "idle", msg_id |-> 0, connection |-> 0]

SharedClient ==
    [_message_id |-> 0, connections |-> 0,
     invocations |-> [c \in Invocations |-> IdleInvocation],
     frames |-> <<>>]

\* get_lovelace_config / list_dashboards: connect and authenticate
WsOpen(c) ==
    /\ probe.invocations[c].pc = "idle"
    /\ probe.connections < MaxCommands
    /\ probe' = [probe EXCEPT
            !.connections = @ + 1,
            !.invocations[c] = [pc |-> "authenticated", msg_id |-> 0,
                                connection |-> probe.connections + 1]]
    /\ UNCHANGED <<env_value, config, inv, rest, ssh, ws>>

\* _send_command up to its first await: the id is taken and the command
\* frame handed to ws.send
SendCommand(c) ==
    /\ probe.invocations[c].pc = "authenticated"
    /\ probe._message_id < MaxCommands
    /\ LET msg_id == _next_message_id(probe._message_id)
       IN  probe' = [probe EXCEPT
                !._message_id = msg_id,
                !.invocations[c].pc = "waiting",
                !.invocations[c].msg_id = msg_id,
                !.frames = Append(@, [id |-> msg_id, invocation |-> c,
                        connection |-> probe.invocations[c].connection])]
    /\ UNCHANGED <<env_value, config, inv, rest, ssh, ws>>

\* the invocation ends (answer, failure or timeout); "async with" closes
\* its connection
WsClose(c) ==
    /\ probe.invocations[c].pc \in {"authenticated", "waiting"}
    /\ probe' = [probe EXCEPT !.invocations[c] = IdleInvocation]
    /\ UNCHANGED <<env_value, config, inv, rest, ssh, ws>>

InitWsIds ==
    /\ env_value = None
    /\ config = AllowConfig(None)
    /\ probe = SharedClient
    /\ inv = IdleInv
    /\ rest = RestInit
    /\ ssh = SshIdle(FALSE)
    /\ ws = WsIdle

NextWsIds ==
    \E c \in Invocations : WsOpen(c) \/ SendCommand(c) \/ WsClose(c)

SpecWsIds == InitWsIds /\ [][NextWsIds]_vars

(***************************************************************************)
(* Properties of the message ids (checked under SpecWsIds).                *)
(***************************************************************************)
InFlight == { c \in Invocations : probe.invocations[c].pc = "waiting" }

\* C22: the command frames of one client carry the ids 1, 2, 3, ... in the
\* order they are sent, over all its connections and invocations: each id
\* is greater than every earlier one, none is reused, the counter is not
\* reset by a new connection, and no two commands in flight share an id.
C22_MessageIdsStrictlyIncrease ==
    /\ \A k \in 1..Len(probe.frames) : probe.frames[k].id = k
    /\ \A j, k \in 1..Len(probe.frames) :
          j < k => probe.frames[j].id < probe.frames[k].id
    /\ \A c, d \in InFlight :
          c # d => probe.invocations[c].msg_id # probe.invocations[d].msg_id

\* two commands in flight at once on two connections, after an earlier one
C22_Witness ==
    /\ Cardinality(InFlight) >= 2
    /\ Len(probe.frames) >= 3
    /\ \E j, k \in 1..Len(probe.frames) :
          probe.frames[j].connection # probe.frames[k].connection

(***************************************************************************)
(* The receive loop of _send_command (ha_ws.py), frame by frame.           *)
(***************************************************************************)
MaxFrames == 3          \* frames one command receives in a run of the model

Continue == [kind |-> "continue", value |-> NoValue, exc |-> NoExc]

\* a loop that takes the first result frame to arrive, whatever its id
_send_command_by_arrival(msg_id, o) ==
    IF o.kind = "exception" THEN Raise(Exc(o.exc, <<"<recv failure>">>))
    ELSE IF o.type = "result"
    THEN IF o.success
         THEN Ret([type |-> "result", text |-> o.message])
         ELSE Raise(Exc("HomeAssistantWSError",
                        <<"Command failed: ">> \o o.message))
    ELSE Continue

\* a loop in which a timed-out receive is followed by another receive
_send_command_waits_through_timeouts(msg_id, o) ==
    IF o.kind = "exception"
    THEN IF o.exc = "TimeoutError" THEN Continue
         ELSE Raise(Exc(o.exc, <<"<recv failure>">>))
    ELSE IF o.id = msg_id
    THEN IF o.success
         THEN Ret([type |-> "result", text |-> o.message])
         ELSE Raise(Exc("HomeAssistantWSError",
                        <<"Command failed: ">> \o o.message))
    ELSE Continue

\* one turn of the loop of _send_command on what ws.recv() gave
_send_command(msg_id, o) ==
    IF o.kind = "exception" THEN Raise(Exc(o.exc, <<"<recv failure>">>))
    ELSE IF o.id = msg_id           \* response_data.get("id") == msg_id
    THEN IF o.success               \* response_data.get("success")
         THEN Ret([type |-> "result", text |-> o.message])
         ELSE Raise(Exc("HomeAssistantWSError",
                        <<"Command failed: ">> \o o.message))
    ELSE Continue                   \* logged and ignored

\* frames the hub can push while a command waits: events without an id
\* (id 0), answers to this and to other commands
LoopFrames ==
    { Frame("event", 0, s, <<"state_changed">>) : s \in BOOLEAN }
    \cup { Frame("result", i, TRUE, r) :
             i \in 1..MaxMessageId, r \in {<<"r1">>, <<"r2">>} }
    \cup { Frame("result", i, FALSE, m) :
             i \in 1..MaxMessageId,
             m \in {<<"Unknown command">>, <<"Unknown error">>} }
    \cup { RecvFailure(e) : e \in {"TimeoutError", "ConnectionClosed"} }

NoCommand ==
    [pc |-> "start", msg_id |-> 0, received |-> <<>>, result |-> Continue]

\* the command frame is sent with its id
CommandSent(msg_id) ==
    /\ probe.pc = "start"
    /\ probe' = [probe EXCEPT !.pc = "receiving", !.msg_id = msg_id]
    /\ UNCHANGED <<env_value, config, inv, rest, ssh, ws>>

\* ws.recv() gives o: the loop returns, raises or goes round
CommandRecv(o) ==
    /\ probe.pc = "receiving"
    /\ Len(probe.received) < MaxFrames
    /\ LET r == _send_command(probe.msg_id, o)
       IN  probe' = [probe EXCEPT
                !.received = Append(@, o),
                !.result = r,
                !.pc = IF r = Continue THEN "receiving" ELSE "done"]
    /\ UNCHANGED <<env_value, config, inv, rest, ssh, ws>>

InitSendCommand ==
    /\ env_value = None
    /\ config = AllowConfig(None)
    /\ probe = NoCommand
    /\ inv = IdleInv
    /\ rest = RestInit
    /\ ssh = SshIdle(FALSE)
    /\ ws = WsIdle

NextSendCommand ==
    \/ \E msg_id \in 1..MaxMessageId : CommandSent(msg_id)
    \/ \E o \in LoopFrames : CommandRecv(o)

SpecSendCommand == InitSendCommand /\ [][NextSendCommand]_vars

(***************************************************************************)
(* Properties of the receive loop (checked under SpecSendCommand).         *)
(***************************************************************************)
Matching(k) ==
    /\ probe.received[k].kind = "frame"
    /\ probe.received[k].id = probe.msg_id

Discarded(k) ==
    /\ probe.received[k].kind = "frame"
    /\ probe.received[k].id # probe.msg_id

\* C23: _send_command ends with a result or a command error only on the
\* first received frame whose id is the id it sent: success gives that
\* frame's result, failure raises HomeAssistantWSError with the hub's
\* message; frames with another id or none, however many come first, are
\* discarded and leave the outcome to the matching frame.
C23_CorrelationById ==
    LET n == Len(probe.received)
    IN  /\ probe.pc = "receiving" =>
              /\ \A k \in 1..n : Discarded(k)
              /\ probe.result = Continue
        /\ (probe.pc = "done" /\ probe.received[n].kind = "frame") =>
              /\ Matching(n)
              /\ \A k \in 1..(n - 1) : Discarded(k)
              /\ probe.received[n].success =>
                    /\ probe.result.kind = "return"
                    /\ probe.result.value.text = probe.received[n].message
              /\ ~probe.received[n].success =>
                    /\ probe.result.kind = "raise"
                    /\ probe.result.exc.type = "HomeAssistantWSError"
                    /\ probe.result.exc.msg
                          = <<"Command failed: ">> \o probe.received[n].message

\* an event and the successful answer to another command came first; the
\* matching frame reported a failure
C23_Witness ==
    /\ probe.pc = "done"
    /\ Len(probe.received) = 3
    /\ probe.received[1].type = "event"
    /\ probe.received[2].type = "result" /\ probe.received[2].success
    /\ probe.received[2].id # probe.msg_id
    /\ Matching(3)
    /\ probe.result.kind = "raise"
    /\ probe.result.exc.type = "HomeAssistantWSError"

(***************************************************************************)
(* Further properties of _truncate_response (checked under SpecTruncate).  *)
(***************************************************************************)
\* C24: when a list does not fit, the prefix returned is the largest one
\* that fits: no longer prefix of the input has a JSON text within
\* max_bytes.
C24_LargestFittingPrefix ==
    (ListSearched /\ probe.result.counted) =>
        \A p \in (probe.result.returned_items + 1)..Len(probe.data.items) :
            PrefixBytes(probe.data.items, p) > probe.max_bytes


\* C25: truncated is false exactly when the JSON text of data is within
\* max_bytes; data over the budget that is not a list, like the dicts the
\* API methods hand over, gives the marker {truncated: true, max_bytes,
\* message, data: null}: the payload is dropped, not shortened.
C25_NonListDroppedWhole ==
    probe.called =>
        /\ ~probe.result.truncated <=> Len(Dumps(probe.data)) <= probe.max_bytes
        /\ (probe.data.t # "list" /\ Len(Dumps(probe.data)) > probe.max_bytes) =>
              /\ probe.result.truncated
              /\ ~probe.result.counted
              /\ probe.result.max_bytes = probe.max_bytes
              /\ probe.result.message # <<>>
              /\ probe.result.data = JsonNull

\* a dict of one member, one character over the budget
C25_Witness ==
    /\ probe.called
    /\ probe.data = JsonDict(<<MemberText>>)
    /\ probe.max_bytes = Len(Dumps(probe.data)) - 1
    /\ probe.result.truncated
    /\ probe.result.data = JsonNull


(***************************************************************************)
(* Further properties of the allowlist (checked under SpecAllow).          *)
(***************************************************************************)
\* a token of lowercase letters, digits and underscore that starts with a
\* letter or an underscore
IsToken(s) ==
    /\ Len(s) >= 1
    /\ s[1] \in LowerChars \cup {"_"}
    /\ \A i \in 1..Len(s) : s[i] \in LowerChars \cup DigitChars \cup {"_"}

\* 'domain.service' or 'domain.*'
HasPatternShape(p) ==
    \E d \in 1..Len(p) :
        /\ p[d] = "."
        /\ IsToken(SubSeq(p, 1, d - 1))
        /\ \/ IsToken(SubSeq(p, d + 1, Len(p)))
           \/ SubSeq(p, d + 1, Len(p)) = <<"*">>

Accepted(p) == HasPatternShape(p) \/ p = <<"*">>

\* C26: every pattern the allowlist holds is 'domain.service' or
\* 'domain.*' with tokens of lowercase letters, digits and underscore
\* starting with a letter or underscore, or is '*' alone; the entries of
\* the input that are neither are dropped and the others kept in input
\* order.
C26_HeldPatternsWellFormed ==
    /\ \A i \in 1..Len(Patterns) : Accepted(Patterns[i])
    /\ env_value # None =>
          Patterns = SelectSeq(StrippedEntries(env_value), Accepted)

(***************************************************************************)
(* search_entities (ha_rest.py), as a function of the hub's states and     *)
(* the query, once _request returned the states.                           *)
(***************************************************************************)
\* len(json.dumps(v)) of a text without escapes, of None, of a number
JsonTextLen(text) == IF text = None THEN 4 ELSE Len(text) + 2

RECURSIVE DecimalLen(_)
DecimalLen(n) == IF n < 10 THEN 1 ELSE 1 + DecimalLen(n \div 10)

\* str(attrs): Python's rendering of the attribute map
AttrStr(attrs) ==
    LET name == IF attrs.friendly_name = None THEN <<>>
                ELSE <<"'", "f", "r", "i", "e", "n", "d", "l", "y", "_", "n", "a", "m", "e", "'", ":", " ", "'">> \o attrs.friendly_name \o <<"'">>
        unit == IF attrs.unit = None THEN <<>>
                ELSE <<"'", "u", "n", "i", "t", "'", ":", " ", "'">> \o attrs.unit \o <<"'">>
    IN  <<"{">> \o name
            \o (IF name # <<>> /\ unit # <<>> THEN <<",", " ">> ELSE <<>>)
            \o unit \o <<"}">>

\* the three tests of the loop, the first hit appends the state
SearchHit(state, query_lower) ==
    LET entity_id == IF state.entity_id = None THEN <<>> ELSE state.entity_id
        friendly_name == IF state.attributes.friendly_name = None THEN <<>>
                         ELSE state.attributes.friendly_name
    IN  IF Contains(Lower(entity_id), query_lower) THEN TRUE
        ELSE IF Contains(Lower(friendly_name), query_lower) THEN TRUE
        ELSE Contains(Lower(AttrStr(state.attributes)), query_lower)

SearchSummary(state) ==
    [entity_id |-> EntityIdOr(state, <<"u", "n", "k", "n", "o", "w", "n">>),
     state |-> state.state,
     friendly_name |-> state.attributes.friendly_name,
     device_class |-> None,
     last_changed |-> state.last_changed]

\* len(json.dumps(...)) of one summary and of the whole payload;
\* last_changed is a number in the model
SummaryDumpsLen(e) ==
    81 + JsonTextLen(e.entity_id) + JsonTextLen(e.state)
       + JsonTextLen(e.friendly_name) + JsonTextLen(e.device_class)
       + DecimalLen(e.last_changed)

\* the summaries lo..hi, summed by halves
RECURSIVE SumDumpsRange(_, _, _)
SumDumpsRange(entities, lo, hi) ==
    IF lo > hi THEN 0
    ELSE IF lo = hi THEN SummaryDumpsLen(entities[lo])
    ELSE LET mid == (lo + hi) \div 2
         IN  SumDumpsRange(entities, lo, mid)
                + SumDumpsRange(entities, mid + 1, hi)

SumDumpsLen(entities, k) == SumDumpsRange(entities, 1, k)

SearchDumpsLen(payload) ==
    60 + JsonTextLen(payload.query) + DecimalLen(payload.total_matches)
       + DecimalLen(payload.returned)
       + SumDumpsLen(payload.entities, Len(payload.entities))
       + (IF Len(payload.entities) > 1
          THEN 2 * (Len(payload.entities) - 1) ELSE 0)

NoSearchPayload ==
    [query |-> <<>>, total_matches |-> 0, returned |-> 0, entities |-> <<>>]

\* _truncate_response on the dict search_entities built
TruncateSearchPayload(payload) ==
    IF SearchDumpsLen(payload) <= MAX_RESPONSE_SIZE
    THEN [truncated |-> FALSE, dropped |-> FALSE, max_bytes |-> 0,
          data |-> payload]
    ELSE [truncated |-> TRUE, dropped |-> TRUE,
          max_bytes |-> MAX_RESPONSE_SIZE, data |-> NoSearchPayload]

\* the query compared as it is, without lower()
search_entities_case_sensitive(states, query) ==
    LET matches == SelectSeq(states, LAMBDA s : SearchHit(s, query))
        entities == [i \in 1..Min(Len(matches), MAX_ENTITIES) |->
                        SearchSummary(matches[i])]
    IN  TruncateSearchPayload(
            [query |-> query, total_matches |-> Len(matches),
             returned |-> Len(entities), entities |-> entities])

search_entities(states, query) ==
    LET query_lower == Lower(query)
        matches == SelectSeq(states, LAMBDA s : SearchHit(s, query_lower))
        entities == [i \in 1..Min(Len(matches), MAX_ENTITIES) |->
                        SearchSummary(matches[i])]
    IN  TruncateSearchPayload(
            [query |-> query, total_matches |-> Len(matches),
             returned |-> Len(entities), entities |-> entities])

\* hub states: the i-th state is of the kind the pattern gives it, its
\* state value a text of `pad` characters, its last_changed the number i
SearchKind(k) ==
    CASE k = "id" ->
            [entity_id |-> <<"l", "i", ".", "K", "i", "t">>,
             attributes |-> [friendly_name |-> <<"L", "a", "m", "p">>, unit |-> None]]
      [] k = "attr" ->
            [entity_id |-> <<"s", "w", ".", "e">>,
             attributes |-> [friendly_name |-> None, unit |-> <<"k", "i", "t">>]]
      [] k = "name" ->
            [entity_id |-> <<"s", "e", ".", "x">>,
             attributes |-> [friendly_name |-> <<"A", " ", "K", "I", "T", "c", "h", "e", "n">>, unit |-> None]]
      [] k = "all" ->
            [entity_id |-> <<"l", "i", ".", "k", "i", "t">>,
             attributes |-> [friendly_name |-> <<"k", "i", "t">>, unit |-> <<"k", "i", "t">>]]
      [] OTHER ->
            [entity_id |-> None,
             attributes |-> [friendly_name |-> None, unit |-> None]]

SearchPatterns ==
    { <<"all">>, <<"bare">>, <<"id", "attr">>,
      <<"id", "attr", "name", "bare", "all">> }

SearchStates(n, pattern, pad) ==
    [i \in 1..n |->
        LET kind == SearchKind(pattern[((i - 1) % Len(pattern)) + 1])
        IN  [entity_id |-> kind.entity_id, attributes |-> kind.attributes,
             state |-> [j \in 1..pad |-> "s"], last_changed |-> i]]

SearchSizes == { 0, 1, 5, MAX_ENTITIES, MAX_ENTITIES + 1, 2 * MAX_ENTITIES + 2 }

SearchPads == { 1, 150 }

SearchQueries ==
    { <<>>, <<"k", "i", "t">>, <<"K", "I", "T">>, <<"u", "n", "i", "t">>, <<"z", "z">>, <<"l", "i", ".">>, <<"'", ":", " ", "'">> }

NoSearch ==
    [called |-> FALSE, n |-> 0, pattern |-> <<"all">>, pad |-> 1,
     query |-> <<>>, result |-> TruncateSearchPayload(NoSearchPayload)]

\* search_entities(query) runs on the states the hub returned
SearchEntities(n, pattern, pad, query) ==
    /\ ~probe.called
    /\ probe' = [called |-> TRUE, n |-> n, pattern |-> pattern, pad |-> pad,
                 query |-> query,
                 result |-> search_entities(SearchStates(n, pattern, pad), query)]
    /\ UNCHANGED <<env_value, config, inv, rest, ssh, ws>>

InitSearch ==
    /\ env_value = None
    /\ config = AllowConfig(None)
    /\ probe = NoSearch
    /\ inv = IdleInv
    /\ rest = RestInit
    /\ ssh = SshIdle(FALSE)
    /\ ws = WsIdle

NextSearch ==
    \E n \in SearchSizes, pattern \in SearchPatterns, pad \in SearchPads,
       query \in SearchQueries :
        SearchEntities(n, pattern, pad, query)

SpecSearch == InitSearch /\ [][NextSearch]_vars

(***************************************************************************)
(* Properties of search_entities (checked under SpecSearch).               *)
(***************************************************************************)
\* needle occurs in text when case is ignored
OccursIgnoringCase(needle, text) ==
    \E i \in 1..(Len(text) - Len(needle) + 1) :
        \A k \in 1..Len(needle) :
            LowerChar(text[i + k - 1]) = LowerChar(needle[k])

\* the i-th hub state belongs to the match set of the query
InMatchSet(i) ==
    LET kind == SearchKind(probe.pattern[((i - 1) % Len(probe.pattern)) + 1])
    IN  \/ kind.entity_id # None
           /\ OccursIgnoringCase(probe.query, kind.entity_id)
        \/ kind.attributes.friendly_name # None
           /\ OccursIgnoringCase(probe.query, kind.attributes.friendly_name)
        \/ OccursIgnoringCase(probe.query, AttrStr(kind.attributes))
        \/ probe.query = <<>>

MatchSetUpTo(m) == { i \in 1..m : InMatchSet(i) }

\* the payload names the match set: its size before capping, and its
\* first min(size, MAX_ENTITIES) members once each, in hub order
PayloadNamesMatchSet(payload) ==
    LET last == IF payload.entities = <<>> THEN 0
                ELSE payload.entities[Len(payload.entities)].last_changed
    IN  /\ payload.total_matches = Cardinality(MatchSetUpTo(probe.n))
        /\ payload.returned = Min(payload.total_matches, MAX_ENTITIES)
        /\ Len(payload.entities) = payload.returned
        /\ \A k \in 1..Len(payload.entities) :
              /\ payload.entities[k].last_changed \in 1..probe.n
              /\ InMatchSet(payload.entities[k].last_changed)
              /\ k > 1 => payload.entities[k - 1].last_changed
                              < payload.entities[k].last_changed
        /\ Cardinality(MatchSetUpTo(last)) = payload.returned

\* C27 as stated: the result of search_entities carries total_matches, the
\* size of the match set before capping, and entities, the first
\* min(total_matches, MAX_ENTITIES) matches once each in hub order, with
\* returned equal to that number.
C27_SearchReturnsMatchSet ==
    probe.called =>
        /\ ~probe.result.dropped
        /\ PayloadNamesMatchSet(probe.result.data)

\* C27, amended: the same whenever the JSON text of the payload is within
\* MAX_RESPONSE_SIZE; a payload over that size is dropped whole by
\* _truncate_response and the result carries data = null, no entities and
\* no counts.
C27_SearchReturnsMatchSetWithinBudget ==
    probe.called =>
        LET matched == Cardinality(MatchSetUpTo(probe.n))
            returned == Min(matched, MAX_ENTITIES)
            \* the JSON text of one summary in the model: 81 characters of
            \* keys and punctuation, an entity_id of 6 to 9, a state of
            \* pad + 2, a friendly_name of 4 to 11, device_class null, and
            \* last_changed of 1 to 4 digits
            least == 64 + returned * (98 + probe.pad) + 2 * (returned - 1)
            most == 70 + Len(probe.query)
                        + returned * (111 + probe.pad) + 2 * returned
        IN  /\ least > MAX_RESPONSE_SIZE => probe.result.dropped
            /\ probe.result.dropped => most > MAX_RESPONSE_SIZE
            /\ IF probe.result.dropped
               THEN /\ probe.result.truncated
                    /\ probe.result.data = NoSearchPayload
               ELSE /\ ~probe.result.truncated
                    /\ PayloadNamesMatchSet(probe.result.data)
                    /\ probe.result.data.query = probe.query

\* more matches than MAX_ENTITIES for a query in another case, found by
\* entity_id, by name and by attribute
C27_Witness ==
    /\ probe.called
    /\ probe.query = <<"K", "I", "T">>
    /\ probe.pattern = <<"id", "attr", "name", "bare", "all">>
    /\ ~probe.result.dropped
    /\ probe.result.data.total_matches > MAX_ENTITIES
    /\ probe.result.data.returned = MAX_ENTITIES

(***************************************************************************)
(* get_history (ha_rest.py), as a function of the history the hub          *)
(* returned: a list of series, one per entity.                             *)
(***************************************************************************)
MAX_HISTORY_ENTRIES == 200

\* a series of the hub: a list of n points numbered 1..n, or something
\* that is not a list
ListSeries(n) == [t |-> "list", points |-> [i \in 1..n |-> i]]
OtherSeries == [t |-> "dict", points |-> <<>>]

\* the loop of get_history over lo..hi of the hub's series, by halves:
\* the series kept, capped, and the points counted before the cap
RECURSIVE HistoryLoop(_, _, _)
HistoryLoop(history, lo, hi) ==
    IF lo > hi THEN [result_history |-> <<>>, total_entries |-> 0]
    ELSE IF lo = hi
    THEN LET entity_history == history[lo]
         IN  IF entity_history.t # "list" \/ entity_history.points = <<>>
             THEN [result_history |-> <<>>, total_entries |-> 0]
             ELSE [result_history |->
                        << SubSeq(entity_history.points, 1,
                                  Min(Len(entity_history.points),
                                      MAX_HISTORY_ENTRIES)) >>,
                   total_entries |-> Len(entity_history.points)]
    ELSE LET mid == (lo + hi) \div 2
             left == HistoryLoop(history, lo, mid)
             right == HistoryLoop(history, mid + 1, hi)
         IN  [result_history |-> left.result_history \o right.result_history,
              total_entries |-> left.total_entries + right.total_entries]

\* the counts the payload carries, by key
HistoryCounts(total_entries) == [total_entries |-> total_entries]

\* len(json.dumps(payload)), every point a JSON text of point_len characters
RECURSIVE SeriesDumpsLen(_, _, _)
SeriesDumpsLen(result_history, k, point_len) ==
    IF k = 0 THEN 0
    ELSE LET n == Len(result_history[k])
         IN  2 + n * point_len + 2 * (n - 1)
               + SeriesDumpsLen(result_history, k - 1, point_len)

HistoryDumpsLen(payload, point_len) ==
    142 + JsonTextLen(payload.entity_id) + DecimalLen(payload.hours)
        + DecimalLen(payload.counts.total_entries)
        + 2 + SeriesDumpsLen(payload.history, Len(payload.history), point_len)
        + (IF Len(payload.history) > 1
           THEN 2 * (Len(payload.history) - 1) ELSE 0)

NoHistoryPayload ==
    [entity_id |-> None, hours |-> 0, start_time |-> <<>>, end_time |-> <<>>,
     counts |-> HistoryCounts(0), history |-> <<>>]

get_history(history, entity_id, hours, point_len) ==
    LET loop == HistoryLoop(history, 1, Len(history))
        payload ==
            [entity_id |-> entity_id, hours |-> hours,
             start_time |-> <<"<start_str>">>, end_time |-> <<"<end_str>">>,
             counts |-> HistoryCounts(loop.total_entries),
             history |-> loop.result_history]
    IN  \* _truncate_response on the dict
        IF HistoryDumpsLen(payload, point_len) <= MAX_RESPONSE_SIZE
        THEN [truncated |-> FALSE, dropped |-> FALSE, data |-> payload]
        ELSE [truncated |-> TRUE, dropped |-> TRUE, data |-> NoHistoryPayload]

SeriesInputs ==
    { ListSeries(n) : n \in { 0, 1, MAX_HISTORY_ENTRIES - 1, MAX_HISTORY_ENTRIES,
                              MAX_HISTORY_ENTRIES + 1, 2 * MAX_HISTORY_ENTRIES } }
    \cup { OtherSeries }

HistoryInputs ==
    { <<>> } \cup [1..1 -> SeriesInputs] \cup [1..2 -> SeriesInputs]
        \cup [1..3 -> SeriesInputs]

PointLens == { 10, 300 }

NoHistory ==
    [called |-> FALSE, history |-> <<>>, point_len |-> 0,
     result |-> [truncated |-> FALSE, dropped |-> FALSE,
                 data |-> NoHistoryPayload]]

\* get_history(entity_id, hours) runs on the history the hub returned
GetHistory(history, entity_id, point_len) ==
    /\ ~probe.called
    /\ probe' = [called |-> TRUE, history |-> history, point_len |-> point_len,
                 result |-> get_history(history, entity_id, 24, point_len)]
    /\ UNCHANGED <<env_value, config, inv, rest, ssh, ws>>

InitHistory ==
    /\ env_value = None
    /\ config = AllowConfig(None)
    /\ probe = NoHistory
    /\ inv = IdleInv
    /\ rest = RestInit
    /\ ssh = SshIdle(FALSE)
    /\ ws = WsIdle

NextHistory ==
    \E history \in HistoryInputs, entity_id \in {None, EntityId},
       point_len \in PointLens :
        GetHistory(history, entity_id, point_len)

SpecHistory == InitHistory /\ [][NextHistory]_vars

(***************************************************************************)
(* Properties of get_history (checked under SpecHistory).                  *)
(***************************************************************************)
\* the hub's series that are non-empty lists, by position
KeptSeries ==
    { i \in 1..Len(probe.history) :
        probe.history[i].t = "list" /\ Len(probe.history[i].points) > 0 }

RawPoints(i) == IF i \in KeptSeries THEN Len(probe.history[i].points) ELSE 0

CappedPoints(i) == Min(RawPoints(i), MAX_HISTORY_ENTRIES)

\* at most three series are handed over
RawTotal == RawPoints(1) + RawPoints(2) + RawPoints(3)
ReturnedTotal == CappedPoints(1) + CappedPoints(2) + CappedPoints(3)

\* the payload holds the non-empty list series in hub order, each cut to
\* its first MAX_HISTORY_ENTRIES points, and total_entries counts the
\* points before the cut
HistoryCappedAndCounted ==
    LET h == probe.result.data.history
    IN  /\ Len(h) = Cardinality(KeptSeries)
        /\ \A k \in 1..Len(h) :
              \E i \in KeptSeries :
                  /\ Cardinality({ j \in KeptSeries : j <= i }) = k
                  /\ Len(h[k]) = CappedPoints(i)
                  /\ \A p \in 1..Len(h[k]) : h[k][p] = probe.history[i].points[p]
        /\ probe.result.data.counts.total_entries = RawTotal

\* C28: get_history cuts each series to its first MAX_HISTORY_ENTRIES
\* points, skips empty and non-list series, and reports the raw total of
\* points (total_entries, before the cut) and the returned total, the
\* number of points included after the cut.
C28_HistoryCappedWithBothTotals ==
    probe.called =>
        /\ HistoryCappedAndCounted
        /\ \E key \in DOMAIN probe.result.data.counts :
              /\ key # "total_entries"
              /\ probe.result.data.counts[key] = ReturnedTotal

(***************************************************************************)
(* The session of HomeAssistantRestClient (ha_rest.py: _get_client,        *)
(* close).  Sessions are numbered in the order they are created; 0 stands  *)
(* for None.                                                               *)
(***************************************************************************)
MaxSessions == 3        \* sessions one client creates in a run of the model
MaxInFlight == 2        \* requests awaiting their response at one time

InFlightSlots == 1..MaxInFlight

NoCall == [op |-> "none", client_before |-> 0, open_before |-> {}, used |-> 0]

\* after __init__: self._client = None
NoSession ==
    [_client |-> 0, created |-> 0, open |-> {}, closing |-> 0,
     held |-> [i \in InFlightSlots |-> 0], last |-> NoCall]

\* _get_client testing only "self._client is None"
_get_client_ignores_closed(c) ==
    IF c._client = 0
    THEN [c EXCEPT !._client = c.created + 1, !.created = @ + 1,
                   !.open = @ \cup {c.created + 1}]
    ELSE c

\* if self._client is None or self._client.is_closed: a new AsyncClient
_get_client(c) ==
    IF c._client = 0 \/ c._client \notin c.open
    THEN [c EXCEPT !._client = c.created + 1, !.created = @ + 1,
                   !.open = @ \cup {c.created + 1}]
    ELSE c

\* _request: client = await self._get_client(), then client.request is
\* awaited on that session
Request(i) ==
    /\ probe.held[i] = 0
    /\ probe.created < MaxSessions
    /\ LET c == _get_client(probe)
       IN  probe' = [c EXCEPT !.held[i] = c._client,
                              !.last = [op |-> "request",
                                        client_before |-> probe._client,
                                        open_before |-> probe.open,
                                        used |-> c._client]]
    /\ UNCHANGED <<env_value, config, inv, rest, ssh, ws>>

\* client.request returned or raised: _request lets go of the session
RequestReturns(i) ==
    /\ probe.held[i] # 0
    /\ probe' = [probe EXCEPT !.held[i] = 0,
                              !.last = [op |-> "response",
                                        client_before |-> probe._client,
                                        open_before |-> probe.open,
                                        used |-> probe.held[i]]]
    /\ UNCHANGED <<env_value, config, inv, rest, ssh, ws>>

\* close() up to its await: nothing to do, or aclose() starts and the
\* session is closed from now on
Close ==
    /\ probe.closing = 0
    /\ probe' =
          IF probe._client # 0 /\ probe._client \in probe.open
          THEN [probe EXCEPT !.open = @ \ {probe._client},
                             !.closing = probe._client,
                             !.last = [op |-> "aclose",
                                       client_before |-> probe._client,
                                       open_before |-> probe.open,
                                       used |-> 0]]
          ELSE [probe EXCEPT !.last = [op |-> "close",
                                       client_before |-> probe._client,
                                       open_before |-> probe.open,
                                       used |-> 0]]
    /\ UNCHANGED <<env_value, config, inv, rest, ssh, ws>>

\* aclose() returned: self._client = None, close() returns
CloseReturns ==
    /\ probe.closing # 0
    /\ probe' = [probe EXCEPT !._client = 0, !.closing = 0,
                              !.last = [op |-> "close",
                                        client_before |-> probe._client,
                                        open_before |-> probe.open,
                                        used |-> 0]]
    /\ UNCHANGED <<env_value, config, inv, rest, ssh, ws>>

InitSession ==
    /\ env_value = None
    /\ config = AllowConfig(None)
    /\ probe = NoSession
    /\ inv = IdleInv
    /\ rest = RestInit
    /\ ssh = SshIdle(FALSE)
    /\ ws = WsIdle

NextSession ==
    \/ \E i \in InFlightSlots : Request(i)
    \/ \E i \in InFlightSlots : RequestReturns(i)
    \/ Close
    \/ CloseReturns

SpecSession == InitSession /\ [][NextSession]_vars

(***************************************************************************)
(* Properties of the session (checked under SpecSession).                  *)
(***************************************************************************)
\* C29: close() with no session, or after a close, changes nothing; after
\* close() returned the client references no session; a request after close(),
\* or one that finds the session closed, creates a fresh session; the
\* client never references more than one open session, and a request that
\* finds its session open uses that one.
C29_CloseIdempotentOneSession ==
    LET l == probe.last
    IN  /\ (l.op = "close" /\ l.client_before = 0) =>
              /\ probe._client = 0
              /\ probe.open = l.open_before
        /\ l.op = "close" => probe._client = 0
        /\ (l.op = "request"
            /\ (l.client_before = 0 \/ l.client_before \notin l.open_before)) =>
              /\ l.used = probe.created
              /\ l.used \notin l.open_before
              /\ l.used # l.client_before
              /\ l.used \in probe.open
        /\ (l.op = "request" /\ l.client_before \in l.open_before) =>
              /\ l.used = l.client_before
              /\ probe.open = l.open_before
        /\ l.op = "request" => probe._client = l.used
        /\ Cardinality({probe._client} \cap probe.open) <= 1
        /\ probe._client # 0 => probe._client \in probe.open \/ probe.closing # 0

\* a second close after a request that followed a first close
C29_Witness ==
    /\ probe.last.op = "close"
    /\ probe.last.client_before = 0
    /\ probe.created = 2
    /\ probe.open = {}

(***************************************************************************)
(* Further properties of from_env (checked under SpecStartup).             *)
(***************************************************************************)
\* float(text) > 0 for a text float() accepts: not negative, not nan, and
\* a mantissa with a digit other than 0 (the inputs stay inside the range
\* of a double, so no exponent turns a non-zero mantissa into 0.0)
FloatPositive(text) ==
    LET t == Strip(text)
        body == Unsigned(t)
        e == FirstIndex(body, {"e", "E"})
        mantissa == IF e = 0 THEN body ELSE SubSeq(body, 1, e - 1)
    IN  /\ t # <<>>
        /\ t[1] # "-"
        /\ Lower(body) # <<"n", "a", "n">>
        /\ \/ Lower(body) \in { <<"i", "n", "f">>,
                                <<"i", "n", "f", "i", "n", "i", "t", "y">> }
           \/ \E i \in 1..Len(mantissa) : /\ \E d \in 2..Len(Digits) : mantissa[i] = Digits[d]

\* C30: every configuration from_env returns has request_timeout > 0,
\* whatever HA_REQUEST_TIMEOUT_SECONDS holds.
C30_RequestTimeoutPositive ==
    probe.loaded.kind = "return" =>
        FloatPositive(probe.loaded.value.request_timeout)

(***************************************************************************)
(* Further properties of the WebSocket client (checked under Spec).        *)
(***************************************************************************)
\* a WebSocket operation ended on a failure of the protocol: a receive
\* timed out or met the closed connection, the handshake met an unexpected
\* frame, or the command was answered with success=false
ProtocolFailure ==
    /\ ws.pc = "done"
    /\ ws.received # <<>>
    /\ LET o == ws.received[Len(ws.received)]
       IN  \/ o.kind = "exception"
              /\ o.exc \in {"TimeoutError", "ConnectionClosed"}
           \/ ws.auth_exc.type = "HomeAssistantWSAuthError"
           \/ o.kind = "frame" /\ o.type = "result" /\ ~o.success

\* C31: list_dashboards ends every protocol-level failure (success=false,
\* an unexpected handshake frame, a receive timeout, the connection
\* closing) by returning an {error, message} payload, never by raising.
C31_ListDashboardsNeverRaises ==
    (ws.op = "list_dashboards" /\ ProtocolFailure) =>
        /\ ws.outcome.kind = "return"
        /\ ws.outcome.value.text[1] = "error="

\* what does hold: a failure that reaches the except clauses as a
\* HomeAssistantWSError is returned as the payload; a timeout or a closed
\* connection is raised as HomeAssistantWSError
ListDashboardsAbsorbsOnlyWSError ==
    (ws.op = "list_dashboards" /\ ProtocolFailure) =>
        LET o == ws.received[Len(ws.received)]
        IN  IF o.kind = "exception"
            THEN /\ ws.outcome.kind = "raise"
                 /\ ws.outcome.exc.type = "HomeAssistantWSError"
            ELSE /\ ws.outcome.kind = "return"
                 /\ ws.outcome.value.text[1] = "error="

(***************************************************************************)
(* _format_log_response and _get_supervisor_logs (ssh_logs.py), on texts   *)
(* of characters.                                                          *)
(***************************************************************************)
MAX_LOG_SIZE == 200000
MAX_LOG_LINES == 2000       \* lines = min(lines, 2000)
SupervisorTimeout == 30     \* timeout=30

\* str.count('\n')
CountNewlines(text) == Cardinality({ i \in 1..Len(text) : text[i] = "\n" })

\* str.rfind('\n'), as a 0-based index; -1 when there is none
RFindNewline(text) ==
    LET at == { i \in 1..Len(text) : text[i] = "\n" }
    IN  IF at = {} THEN 0 - 1
        ELSE (CHOOSE i \in at : \A j \in at : j <= i) - 1

\* _format_log_response backing off to any newline it finds
_format_log_response_any_newline(log_content, source, requested_lines) ==
    LET actual_lines ==
            CountNewlines(log_content)
            + (IF log_content # <<>> /\ log_content[Len(log_content)] # "\n"
               THEN 1 ELSE 0)
    IN  IF Len(log_content) > MAX_LOG_SIZE
        THEN LET head == SubSeq(log_content, 1, MAX_LOG_SIZE)
                 last_newline == RFindNewline(head)
                 truncated_content ==
                     IF last_newline > 0
                     THEN SubSeq(head, 1, last_newline)
                     ELSE head
             IN  [keys |-> {"truncated", "source", "requested_lines",
                            "total_bytes", "returned_bytes", "max_bytes", "log"},
                  truncated |-> TRUE, source |-> source,
                  requested_lines |-> requested_lines, actual_lines |-> 0,
                  total_bytes |-> Len(log_content),
                  returned_bytes |-> Len(truncated_content),
                  max_bytes |-> MAX_LOG_SIZE, log |-> truncated_content]
        ELSE [keys |-> {"truncated", "source", "requested_lines",
                        "actual_lines", "total_bytes", "log"},
              truncated |-> FALSE, source |-> source,
              requested_lines |-> requested_lines,
              actual_lines |-> actual_lines,
              total_bytes |-> Len(log_content), returned_bytes |-> 0,
              max_bytes |-> 0, log |-> log_content]

\* keys lists the keys of the dict; a field whose key is absent holds 0
_format_log_response(log_content, source, requested_lines) ==
    LET actual_lines ==
            CountNewlines(log_content)
            + (IF log_content # <<>> /\ log_content[Len(log_content)] # "\n"
               THEN 1 ELSE 0)
    IN  IF Len(log_content) > MAX_LOG_SIZE
        THEN LET head == SubSeq(log_content, 1, MAX_LOG_SIZE)
                 last_newline == RFindNewline(head)
                 truncated_content ==
                     IF last_newline > MAX_LOG_SIZE \div 2
                     THEN SubSeq(head, 1, last_newline)
                     ELSE head
             IN  [keys |-> {"truncated", "source", "requested_lines",
                            "total_bytes", "returned_bytes", "max_bytes", "log"},
                  truncated |-> TRUE, source |-> source,
                  requested_lines |-> requested_lines, actual_lines |-> 0,
                  total_bytes |-> Len(log_content),
                  returned_bytes |-> Len(truncated_content),
                  max_bytes |-> MAX_LOG_SIZE, log |-> truncated_content]
        ELSE [keys |-> {"truncated", "source", "requested_lines",
                        "actual_lines", "total_bytes", "log"},
              truncated |-> FALSE, source |-> source,
              requested_lines |-> requested_lines,
              actual_lines |-> actual_lines,
              total_bytes |-> Len(log_content), returned_bytes |-> 0,
              max_bytes |-> 0, log |-> log_content]

\* what _run_command gives _get_supervisor_logs: (stdout, stderr, exit_code)
\* or an SSHError
CommandOutput(stdout, stderr, exit_code) ==
    [kind |-> "return", stdout |-> stdout, stderr |-> stderr,
     exit_code |-> exit_code, exc |-> NoExc]
CommandError(msg) ==
    [kind |-> "raise", stdout |-> <<>>, stderr |-> <<>>, exit_code |-> 0,
     exc |-> Exc("SSHError", msg)]

SupervisorSource == <<"h", "a", " ", "s", "u", "p", "e", "r", "v", "i", "s", "o", "r", " ", "l", "o", "g", "s">>

SupervisorUnavailable ==
    Exc("SSHError",
        <<"S", "u", "p", "e", "r", "v", "i", "s", "o", "r", " ", "l", "o", "g", "s", " ", "n", "o", "t", " ", "a", "v", "a", "i", "l", "a", "b", "l", "e", ".", " ", "T", "h", "i", "s", " ", "r", "e", "q", "u", "i", "r", "e", "s", " ", "H", "A", " ", "O", "S", " ", "o", "r", " ", "S", "u", "p", "e", "r", "v", "i", "s", "e", "d", " ", "i", "n", "s", "t", "a", "l", "l", "a", "t", "i", "o", "n", ".">>)

\* _get_supervisor_logs looking for 'not found' in stderr before it is cut
_get_supervisor_logs_whole_stderr(r, lines) ==
    LET raised ==
            IF r.kind = "raise" THEN r.exc
            ELSE IF r.exit_code = 0 /\ r.stdout # <<>> THEN NoExc
            ELSE IF r.stderr # <<>>
            THEN Exc("SSHError", <<"h", "a", " ", "s", "u", "p", "e", "r", "v", "i", "s", "o", "r", " ", "l", "o", "g", "s", " ", "f", "a", "i", "l", "e", "d", ":", " ">> \o r.stderr)
            ELSE Exc("SSHError", <<"h", "a", " ", "s", "u", "p", "e", "r", "v", "i", "s", "o", "r", " ", "l", "o", "g", "s", " ", "r", "e", "t", "u", "r", "n", "e", "d", " ", "e", "m", "p", "t", "y", " ", "o", "u", "t", "p", "u", "t">>)
    IN  IF raised = NoExc
        THEN Ret(_format_log_response(r.stdout, SupervisorSource, lines))
        ELSE IF Contains(Lower(raised.msg), <<"n", "o", "t", " ", "f", "o", "u", "n", "d">>)
        THEN Raise(SupervisorUnavailable)
        ELSE Raise(raised)

\* _get_supervisor_logs after its one _run_command returned or raised r
_get_supervisor_logs(r, lines) ==
    LET raised ==
            IF r.kind = "raise" THEN r.exc
            ELSE IF r.exit_code = 0 /\ r.stdout # <<>> THEN NoExc
            ELSE IF r.stderr # <<>>
            THEN Exc("SSHError",
                     <<"h", "a", " ", "s", "u", "p", "e", "r", "v", "i", "s", "o", "r", " ", "l", "o", "g", "s", " ", "f", "a", "i", "l", "e", "d", ":", " ">>
                     \o SubSeq(r.stderr, 1, Min(StderrLimit, Len(r.stderr))))
            ELSE Exc("SSHError", <<"h", "a", " ", "s", "u", "p", "e", "r", "v", "i", "s", "o", "r", " ", "l", "o", "g", "s", " ", "r", "e", "t", "u", "r", "n", "e", "d", " ", "e", "m", "p", "t", "y", " ", "o", "u", "t", "p", "u", "t">>)
    IN  IF raised = NoExc
        THEN Ret(_format_log_response(r.stdout, SupervisorSource, lines))
        ELSE IF Contains(Lower(raised.msg), <<"n", "o", "t", " ", "f", "o", "u", "n", "d">>)
                \/ Contains(Lower(raised.msg), <<"c", "o", "m", "m", "a", "n", "d", " ", "n", "o", "t", " ", "f", "o", "u", "n", "d">>)
        THEN Raise(SupervisorUnavailable)
        ELSE Raise(raised)

\* what the shell of a host without the ha command writes to stderr, after
\* n characters that the login wrote there first; it exits with status 127
Banner(n) == [i \in 1..n |-> "w"]
BannerSizes == {0, 100, 190, 200, 250}
NotFoundTexts == { <<"s", "h", ":", " ", "h", "a", ":", " ", "n", "o", "t", " ", "f", "o", "u", "n", "d">>, <<"b", "a", "s", "h", ":", " ", "h", "a", ":", " ", "c", "o", "m", "m", "a", "n", "d", " ", "n", "o", "t", " ", "f", "o", "u", "n", "d">> }

AbsentOutputs ==
    { CommandOutput(<<>>, Banner(n) \o t, 127) :
        n \in BannerSizes, t \in NotFoundTexts }

PresentOutputs ==
    { CommandOutput(out, err, status) :
        out \in { <<>>, <<"l", "o", "g", "\n">> },
        err \in { <<>>, <<"b", "o", "o", "m">>, <<"E", "r", "r", "o", "r", ":", " ", "e", "n", "t", "i", "t", "y", " ", "N", "o", "t", " ", "F", "o", "u", "n", "d">> },
        status \in {0, 1} }
    \cup { CommandError(m) :
             m \in { <<"C", "o", "m", "m", "a", "n", "d", " ", "t", "i", "m", "e", "o", "u", "t", " ", "a", "f", "t", "e", "r", " ", "3", "0", "s">>,
                     <<"C", "o", "m", "m", "a", "n", "d", " ", "e", "x", "e", "c", "u", "t", "i", "o", "n", " ", "f", "a", "i", "l", "e", "d", ":", " ", "C", "o", "n", "n", "e", "c", "t", "i", "o", "n", " ", "l", "o", "s", "t">>,
                     <<"S", "S", "H", " ", "c", "o", "n", "n", "e", "c", "t", "i", "o", "n", " ", "t", "i", "m", "e", "o", "u", "t", " ", "a", "f", "t", "e", "r", " ", "1", "5", ".", "0", "s">>,
                     <<"S", "S", "H", " ", "c", "o", "n", "n", "e", "c", "t", "i", "o", "n", " ", "f", "a", "i", "l", "e", "d", ":", " ", "H", "o", "s", "t", " ", "n", "o", "t", " ", "f", "o", "u", "n", "d">>,
                     <<"a", "s", "y", "n", "c", "s", "s", "h", " ", "n", "o", "t", " ", "i", "n", "s", "t", "a", "l", "l", "e", "d">> } }

LinesAsked == {1, 500, 2000, 5000}

SupervisorRun(absent, r, lines) ==
    [called |-> FALSE, absent |-> absent, run_result |-> r,
     lines |-> lines, command |-> <<>>, result |-> Ret(NoValue)]

\* get_logs(kind='supervisor', lines): the one command and what becomes of it
GetSupervisorLogs ==
    /\ ~probe.called
    /\ LET lines == Min(probe.lines, MAX_LOG_LINES)
       IN  probe' = [probe EXCEPT
              !.called = TRUE,
              !.command = <<"ha supervisor logs --lines ", lines,
                            "timeout=", SupervisorTimeout>>,
              !.result = _get_supervisor_logs(probe.run_result, lines)]
    /\ UNCHANGED <<env_value, config, inv, rest, ssh, ws>>

InitSupervisor ==
    /\ env_value = None
    /\ config = AllowConfig(None)
    /\ probe \in { SupervisorRun(TRUE, r, n) : r \in AbsentOutputs, n \in LinesAsked }
              \cup { SupervisorRun(FALSE, r, n) : r \in PresentOutputs, n \in LinesAsked }
    /\ inv = IdleInv
    /\ rest = RestInit
    /\ ssh = SshIdle(FALSE)
    /\ ws = WsIdle

NextSupervisor == GetSupervisorLogs

SpecSupervisor == InitSupervisor /\ [][NextSupervisor]_vars

(***************************************************************************)
(* Properties of _get_supervisor_logs (checked under SpecSupervisor).      *)
(***************************************************************************)
SupervisorSucceeded ==
    /\ probe.run_result.kind = "return"
    /\ probe.run_result.exit_code = 0
    /\ probe.run_result.stdout # <<>>

\* what holds of every run: exit 0 with output returns the formatted log,
\* every other outcome raises SSHError
SupervisorReturnsOrRaises ==
    probe.called =>
        /\ SupervisorSucceeded =>
              /\ probe.result.kind = "return"
              /\ probe.result.value.log = probe.run_result.stdout
              /\ probe.result.value.source = SupervisorSource
              /\ probe.result.value.requested_lines = Min(probe.lines, MAX_LOG_LINES)
        /\ ~SupervisorSucceeded =>
              /\ probe.result.kind = "raise"
              /\ probe.result.exc.type = "SSHError"

\* C32: get_logs(kind='supervisor') returns the formatted log on exit 0
\* with output and raises SSHError on every other outcome, and whenever the
\* host has no supervisor command the error raised is the descriptive
\* 'requires HA OS or Supervised installation' one.
C32_SupervisorAbsentIsDescriptive ==
    /\ SupervisorReturnsOrRaises
    /\ (probe.called /\ probe.absent) => probe.result = Raise(SupervisorUnavailable)

\* under Spec: the supervisor path runs the supervisor command and nothing
\* else, once
SupervisorRunsOneCommand ==
    (ssh.entry = "get_logs" /\ ssh.kind = <<"supervisor">> /\ config.ssh_enable) =>
        /\ ssh.tried = <<SupervisorCommand>>
        /\ ssh.connects <= 1

(***************************************************************************)
(* _format_log_response as a function of the raw output.                   *)
(***************************************************************************)
MaxShortLog == 5        \* length of the short raw outputs tried

\* a raw output of n characters with newlines at the given positions
RawLog(n, newlines) == [i \in 1..n |-> IF i \in newlines THEN "\n" ELSE "a"]

ShortRawLogs ==
    { RawLog(n, nl) : n \in 0..MaxShortLog, nl \in SUBSET (1..MaxShortLog) }

\* outputs around MAX_LOG_SIZE, with the last newline of the first
\* MAX_LOG_SIZE characters around the midpoint, at the end, or missing
LongRawLogs ==
    { RawLog(MAX_LOG_SIZE, {7}) }
    \cup { RawLog(MAX_LOG_SIZE + 1, nl) :
              nl \in { {}, {5}, {MAX_LOG_SIZE \div 2 + 1},
                       {MAX_LOG_SIZE \div 2 + 2}, {7, MAX_LOG_SIZE - 3},
                       {MAX_LOG_SIZE}, {MAX_LOG_SIZE + 1},
                       {MAX_LOG_SIZE \div 2 + 2, MAX_LOG_SIZE + 1} } }

RawLogs == ShortRawLogs \cup LongRawLogs

NotFormatted(raw) ==
    [called |-> FALSE, raw |-> raw,
     payload |-> _format_log_response(<<>>, <<>>, 0)]

FormatLogResponse ==
    /\ ~probe.called
    /\ probe' = [probe EXCEPT
                    !.called = TRUE,
                    !.payload = _format_log_response(probe.raw, SupervisorSource,
                                                     MAX_LOG_LINES)]
    /\ UNCHANGED <<env_value, config, inv, rest, ssh, ws>>

InitFormatLog ==
    /\ env_value = None
    /\ config = AllowConfig(None)
    /\ probe \in { NotFormatted(raw) : raw \in RawLogs }
    /\ inv = IdleInv
    /\ rest = RestInit
    /\ ssh = SshIdle(FALSE)
    /\ ws = WsIdle

NextFormatLog == FormatLogResponse

SpecFormatLog == InitFormatLog /\ [][NextFormatLog]_vars

(***************************************************************************)
(* Properties of _format_log_response (checked under SpecFormatLog).       *)
(***************************************************************************)
\* the number of newline-delimited lines of a text
LinesOf(text) ==
    CountNewlines(text)
    + (IF text # <<>> /\ text[Len(text)] # "\n" THEN 1 ELSE 0)

\* the 1-based positions of the newlines among the first MAX_LOG_SIZE
\* characters
NewlinesInHead(text) ==
    { i \in 1..Min(Len(text), MAX_LOG_SIZE) : text[i] = "\n" }

\* what holds of the truncation: truncated exactly over MAX_LOG_SIZE,
\* total_bytes the raw length, the log a prefix of the raw output that ends
\* before the last newline of the first MAX_LOG_SIZE characters exactly
\* when that newline has more than MAX_LOG_SIZE \div 2 characters before it
FormatLogTruncation ==
    probe.called =>
        LET raw == probe.raw
            p == probe.payload
            nls == NewlinesInHead(raw)
            last == IF nls = {} THEN 0
                    ELSE CHOOSE i \in nls : \A j \in nls : j <= i
        IN  /\ p.truncated <=> Len(raw) > MAX_LOG_SIZE
            /\ p.total_bytes = Len(raw)
            /\ "total_bytes" \in p.keys
            /\ Len(p.log) <= Len(raw)
            /\ p.log = SubSeq(raw, 1, Len(p.log))
            /\ ~p.truncated =>
                  /\ p.log = raw
                  /\ "actual_lines" \in p.keys
                  /\ p.actual_lines = LinesOf(raw)
            /\ p.truncated =>
                  /\ p.max_bytes = MAX_LOG_SIZE
                  /\ p.returned_bytes = Len(p.log)
                  /\ p.returned_bytes <= MAX_LOG_SIZE
                  /\ {"returned_bytes", "max_bytes"} \subseteq p.keys
                  /\ Len(p.log) = IF last - 1 > MAX_LOG_SIZE \div 2
                                  THEN last - 1 ELSE MAX_LOG_SIZE

\* C33: truncated is reported exactly over 200,000 characters, with the cut
\* described above, and the payload reports the byte counts and the line
\* count of the raw output in the truncated and in the untruncated case.
C33_FormatLogReportsCounts ==
    /\ FormatLogTruncation
    /\ probe.called =>
          /\ "total_bytes" \in probe.payload.keys
          /\ "actual_lines" \in probe.payload.keys
          /\ probe.payload.actual_lines = LinesOf(probe.raw)

(***************************************************************************)
(* Timeouts of the three transports, as the caller of call_tool sees them  *)
(* (checked under Spec).                                                   *)
(***************************************************************************)
\* the invocation's REST request ended on a timeout of httpx
RestTimedOut ==
    /\ rest.log # <<>>
    /\ rest.log[Len(rest.log)].kind = "exception"
    /\ IsInstance(rest.log[Len(rest.log)].exc, "TimeoutException")

\* the invocation's WebSocket operation ended on a timeout of the connect
\* or of a receive
WsTimedOut ==
    /\ ws.pc = "done" /\ ws.caller = "gate"
    /\ \/ ws.connects = 0 /\ ws.outcome.kind = "raise"
          /\ ws.outcome.exc.msg[1] = "WebSocket timeout after "
       \/ /\ ws.received # <<>>
          /\ ws.received[Len(ws.received)].kind = "exception"
          /\ ws.received[Len(ws.received)].exc = "TimeoutError"

\* the last command of the invocation's SSH operation ended on a timeout of
\* the connect or of the command
SshTimedOut ==
    /\ ssh.pc = "done" /\ ssh.caller = "gate"
    /\ ssh.last.kind = "raise"
    /\ ssh.last.exc.msg[1] \in {"SSH connection timeout after ",
                                "Command timeout after "}

SaysTimeout(body, what) ==
    /\ InSeq(what, body)
    /\ InSeq(TimeoutText[1], body)

\* what holds: the timeouts of REST and of the WebSocket reach the caller
\* as that transport's timeout error with the configured timeout
RestAndWsTimeoutsSurface ==
    inv.pc = "done" =>
        /\ RestTimedOut =>
              /\ inv.result.kind = "error"
              /\ SaysTimeout(inv.result.body, "Request timeout after ")
              /\ \A i \in 1..(Len(rest.log) - 1) :
                    ~(rest.log[i].kind = "exception"
                      /\ IsInstance(rest.log[i].exc, "TimeoutException"))
        /\ WsTimedOut =>
              /\ inv.result.kind = "error"
              /\ SaysTimeout(inv.result.body, "WebSocket timeout after ")

\* C34: a REST request, a WebSocket connect or receive, an SSH connect or
\* command that runs into its timeout is bounded by the configured request
\* timeout, and the caller of the tool gets that operation's timeout error,
\* not another error.
C34_TimeoutsSurfaceAsTimeouts ==
    /\ RestAndWsTimeoutsSurface
    /\ (inv.pc = "done" /\ SshTimedOut) =>
          /\ inv.result.kind = "error"
          /\ \/ SaysTimeout(inv.result.body, "SSH connection timeout after ")
             \/ SaysTimeout(inv.result.body, "Command timeout after ")

ReadTools ==
    << "ha_ping", "ha_list_entities", "ha_get_entity", "ha_search_entities",
       "ha_get_history", "ha_get_logbook", "ha_get_error_log",
       "ha_get_lovelace_config" >>

\* a catalogue that lists the two gated tools whatever the configuration
get_tools_ungated(cfg) ==
    ReadTools \o <<"ha_call_service">> \o <<"ha_get_full_logs">>

\* the names of the tools get_tools() returns, in its order
get_tools(cfg) ==
    ReadTools
    \o (IF cfg.mode = "readwrite" THEN <<"ha_call_service">> ELSE <<>>)
    \o (IF cfg.ssh_enable THEN <<"ha_get_full_logs">> ELSE <<>>)

Listed(name) == InSeq(name, get_tools(config))

\* the invocation was handed to a transport client
Forwarded == inv.pc # "idle" /\ InSeq("client", inv.trace)

\* C36: list_tools returns ha_call_service exactly in readwrite mode,
\* ha_get_full_logs exactly with SSH enabled, and the eight read tools
\* always; call_tool forwards to a client only tools that list_tools
\* returns, and answers every other name with an error payload without
\* touching a client.
C36_CatalogueMatchesDispatcher ==
    /\ Listed("ha_call_service") <=> config.mode = "readwrite"
    /\ Listed("ha_get_full_logs") <=> config.ssh_enable
    /\ \A i \in 1..Len(ReadTools) : Listed(ReadTools[i])
    /\ Len(get_tools(config))
         = 8 + (IF config.mode = "readwrite" THEN 1 ELSE 0)
             + (IF config.ssh_enable THEN 1 ELSE 0)
    /\ Forwarded => Listed(inv.name)
    /\ (inv.pc # "idle" /\ ~Listed(inv.name)) =>
          /\ inv.pc = "done"
          /\ inv.result.kind = "error"
          /\ rest.attempts = 0 /\ rest.sent = <<>>
          /\ ssh.pc = "idle" /\ ssh.connects = 0
          /\ ws.pc = "idle" /\ ws.connects = 0

\* ha_get_full_logs was called on a server that does not list it
C36_Witness ==
    /\ inv.pc = "done"
    /\ inv.name = "ha_get_full_logs"
    /\ ~config.ssh_enable
    /\ inv.result = ErrorResponse(SshDisabledMessage)

(***************************************************************************)
(* The attempts of one _request call (checked under Spec).                 *)
(***************************************************************************)
\* the attempt failed with a transport error that is not a timeout
TransportFailed(outcome) ==
    /\ outcome.kind = "exception"
    /\ IsInstance(outcome.exc, "TransportError")
    /\ ~IsInstance(outcome.exc, "TimeoutException")

\* C37: one _request call makes between 1 and 3 attempts, and each attempt
\* but the first follows an attempt that failed with a transport error
\* other than a timeout; so an allowed ha_call_service sends its POST
\* between 1 and 3 times, and when the third attempt fails that way too the
\* transport error itself reaches the dispatcher.
C37_AttemptsBounded ==
    /\ rest.attempts = Len(rest.log) /\ rest.attempts = Len(rest.sent)
    /\ rest.attempts <= 3
    /\ \A i \in 1..(Len(rest.log) - 1) : TransportFailed(rest.log[i])
    /\ (inv.pc = "done" /\ InSeq("client", inv.trace)
          /\ inv.name \notin {"ha_get_lovelace_config", "ha_get_full_logs"})
       => rest.attempts >= 1
    /\ (inv.pc = "rest" /\ rest.attempts > 0)
       => TransportFailed(rest.log[Len(rest.log)])
    /\ inv.name = "ha_call_service" =>
          /\ \A i \in 1..Len(rest.sent) :
                /\ rest.sent[i].method = "POST"
                /\ rest.sent[i].path
                     = ServicePath(inv.arguments.domain, inv.arguments.service)
          /\ rest.sent # <<>> => inv.allowed = "yes"
    /\ (inv.pc = "done" /\ rest.attempts = 3
          /\ TransportFailed(rest.log[3]))
       => /\ rest.outcome.kind = "raise"
          /\ rest.outcome.exc.type = rest.log[3].exc
          /\ inv.exc = rest.outcome.exc
          /\ inv.result = HandleException(rest.outcome.exc)

\* an allowed service call sent its POST three times and gave up
C37_Witness ==
    /\ inv.pc = "done"
    /\ inv.name = "ha_call_service"
    /\ Len(rest.sent) = 3
    /\ TransportFailed(rest.log[3])

(***************************************************************************)
(* Further properties of the session (checked under SpecSession).          *)
(***************************************************************************)
\* sessions that are open and that the client no longer references
Unreferenced == { s \in probe.open : s # probe._client }

\* C38: whatever the interleaving of close() and requests, every session
\* _get_client created is still referenced by the client or has been
\* closed.
C38_NoSessionLeftOpen ==
    \A s \in 1..probe.created : s = probe._client \/ s \notin probe.open

\* what holds: a session is left open and unreferenced only by a close()
\* that returned after a request had replaced the session it was closing
LeakOnlyThroughConcurrentClose ==
    [][ (Unreferenced = {} /\ Unreferenced' # {}) =>
            /\ probe.closing # 0
            /\ probe'.closing = 0
            /\ probe._client # probe.closing
            /\ probe'._client = 0 ]_vars

(***************************************************************************)
(* The receive loop of _send_command going round without a bound, for its  *)
(* termination.  The loop keeps nothing of the frames it ignores; the      *)
(* model keeps the last RecentFrames outcomes and the parity of the turns. *)
(***************************************************************************)
RecentFrames == 2       \* outcomes of ws.recv() the model remembers

LoopStart ==
    [pc |-> "start", msg_id |-> 0, recent |-> <<>>, turns |-> 0,
     result |-> Continue]

\* the last n elements of a sequence
LastOf(seq, n) ==
    IF Len(seq) <= n THEN seq ELSE SubSeq(seq, Len(seq) - n + 1, Len(seq))

\* msg_id = self._next_message_id(); await ws.send(json.dumps(command))
LoopSend(msg_id) ==
    /\ probe.pc = "start"
    /\ probe' = [probe EXCEPT !.pc = "receiving", !.msg_id = msg_id]
    /\ UNCHANGED <<env_value, config, inv, rest, ssh, ws>>

\* ws.recv() under wait_for gives o: the loop returns, raises or goes round
LoopTurn(o) ==
    /\ probe.pc = "receiving"
    /\ LET r == _send_command(probe.msg_id, o)
       IN  probe' = [probe EXCEPT
                !.recent = LastOf(Append(@, o), RecentFrames),
                !.turns = (@ + 1) % 2,
                !.result = r,
                !.pc = IF r = Continue THEN "receiving" ELSE "done"]
    /\ UNCHANGED <<env_value, config, inv, rest, ssh, ws>>

\* the hub answers the command, or sends nothing for longer than the
\* request timeout, or the connection closes
HubEnds ==
    \E o \in LoopFrames :
        /\ \/ o.kind = "exception"
           \/ o.kind = "frame" /\ o.id = probe.msg_id
        /\ LoopTurn(o)

InitLoop ==
    /\ env_value = None
    /\ config = AllowConfig(None)
    /\ probe = LoopStart
    /\ inv = IdleInv
    /\ rest = RestInit
    /\ ssh = SshIdle(FALSE)
    /\ ws = WsIdle

NextLoop ==
    \/ \E msg_id \in 1..MaxMessageId : LoopSend(msg_id)
    \/ \E o \in LoopFrames : LoopTurn(o)

\* the command is sent, and the hub eventually ends the wait
SpecLoop ==
    /\ InitLoop /\ [][NextLoop]_vars
    /\ WF_vars(\E msg_id \in 1..MaxMessageId : LoopSend(msg_id))
    /\ WF_vars(HubEnds)

(***************************************************************************)
(* Properties of the unbounded receive loop (checked under SpecLoop).      *)
(***************************************************************************)
\* the turn just made received a frame with another id than the command's
OtherIdReceived ==
    /\ probe.pc = "receiving"
    /\ probe'.recent # <<>>
    /\ probe' # probe
    /\ LET o == probe'.recent[Len(probe'.recent)]
       IN  o.kind = "frame" /\ o.id # probe.msg_id

\* C39: _send_command eventually returns or raises when the hub eventually
\* answers with the command's id or lets a receive run into the timeout;
\* and a frame with another id neither ends the call nor times it out: the
\* loop receives again.
C39_SendCommandTerminates ==
    /\ <>(probe.pc = "done")
    /\ [][OtherIdReceived => /\ probe'.pc = "receiving"
                             /\ probe'.result = Continue]_vars

\* the command was answered after two frames with other ids were ignored
C39_Witness ==
    /\ probe.pc = "done"
    /\ probe.result.kind = "return"
    /\ Len(probe.recent) = 2
    /\ probe.recent[1].kind = "frame" /\ probe.recent[1].id # probe.msg_id

====
